---- MODULE Spec2Model ----
(***************************************************************************)
(* Model of the GOG Galaxy importer (most recent revision of               *)
(* importers/gog-galaxy/index.js): row grouping, reducing-title search,    *)
(* importGame, the import map store and the game loop of                   *)
(* importFromGOGGalaxy.                                                    *)
(*                                                                         *)
(* Strings that the code takes apart (titles, paths, labels) are tuples of *)
(* one-character strings, so that trim / split / join / concatenation are  *)
(* computed and not assumed.                                               *)
(***************************************************************************)
EXTENDS Integers, Sequences, FiniteSets, TLC

\* JS null / undefined of a numeric field.
NULL == -1
\* JS null / undefined of a string field (no string of the model equals it).
NULLS == <<"null">>
\* JS null / undefined releaseKey (falsy key).
NullKey == ""

\* JS truthiness of a nullable number and of a nullable string.
Truthy(n) == n # NULL /\ n # 0
TruthyS(s) == s # NULLS /\ s # <<>>

RECURSIVE SeqToSet(_)
SeqToSet(s) == IF s = <<>> THEN {} ELSE {Head(s)} \cup SeqToSet(Tail(s))

Last(s) == s[Len(s)]
Front(s) == SubSeq(s, 1, Len(s) - 1)

(***************************************************************************)
(* String primitives used by the importer.                                 *)
(***************************************************************************)
RECURSIVE TrimLeft(_)
TrimLeft(s) == IF s # <<>> /\ Head(s) = " " THEN TrimLeft(Tail(s)) ELSE s

RECURSIVE TrimRight(_)
TrimRight(s) == IF s # <<>> /\ Last(s) = " " THEN TrimRight(Front(s)) ELSE s

\* String.prototype.trim
Trim(s) == TrimRight(TrimLeft(s))

\* String.prototype.split(/\s+/): cur is the word being read, acc the words
\* already closed; a run of blanks closes a word once.
RECURSIVE SplitFrom(_, _, _, _)
SplitFrom(s, cur, acc, inBlank) ==
  IF s = <<>> THEN Append(acc, cur)
  ELSE IF Head(s) = " "
       THEN IF inBlank THEN SplitFrom(Tail(s), cur, acc, TRUE)
            ELSE SplitFrom(Tail(s), <<>>, Append(acc, cur), TRUE)
       ELSE SplitFrom(Tail(s), Append(cur, Head(s)), acc, FALSE)

SplitWS(s) == SplitFrom(s, <<>>, <<>>, FALSE)

\* Array.prototype.join(' ')
RECURSIVE JoinSp(_)
JoinSp(words) ==
  IF words = <<>> THEN <<>>
  ELSE IF Len(words) = 1 THEN words[1]
  ELSE words[1] \o <<" ">> \o JoinSp(Tail(words))

\* String.prototype.endsWith
EndsWith(s, suffix) ==
  /\ Len(s) >= Len(suffix)
  /\ SubSeq(s, Len(s) - Len(suffix) + 1, Len(s)) = suffix

(***************************************************************************)
(* Calendar: new Date(ts * 1000) read as a UTC civil date.                 *)
(***************************************************************************)
SecondsPerDay == 86400

CivilFromDays(days) ==
  LET z   == days + 719468
      era == z \div 146097
      doe == z - era * 146097
      yoe == (doe - doe \div 1460 + doe \div 36524 - doe \div 146096) \div 365
      doy == doe - (365 * yoe + yoe \div 4 - yoe \div 100)
      mp  == (5 * doy + 2) \div 153
      d   == doy - (153 * mp + 2) \div 5 + 1
      m   == IF mp < 10 THEN mp + 3 ELSE mp - 9
      y   == yoe + era * 400 + (IF m <= 2 THEN 1 ELSE 0)
  IN  [year |-> y, month |-> m, day |-> d]

\* new Date(ts * 1000).getFullYear()
YearOf(ts) == CivilFromDays(ts \div SecondsPerDay).year

\* Number of characters of String(n) for an integer n.
RECURSIVE DigitCount(_)
DigitCount(n) ==
  IF n < 0 THEN 1 + DigitCount(0 - n)
  ELSE IF n < 10 THEN 1 ELSE 1 + DigitCount(n \div 10)

\* Longest numeric date that is kept as a bare year.
BareYearDigits == 4

\* Variant of formatReleaseDateForMap that reads every number as a
\* timestamp.
formatReleaseDateForMap_AlwaysIso(releaseDate) ==
  IF releaseDate = NULL THEN NULLS
  ELSE LET c == CivilFromDays(releaseDate \div SecondsPerDay)
       IN  <<"ymd", c.year, c.month, c.day>>

\* formatReleaseDateForMap for the numeric dates importGame passes to it:
\* null stays null, a short number is printed as it is, a longer one is the
\* ISO date (YYYY-MM-DD) of that Unix-seconds timestamp.
formatReleaseDateForMap(releaseDate) ==
  IF releaseDate = NULL THEN NULLS
  ELSE IF DigitCount(releaseDate) <= BareYearDigits
       THEN <<"bare", releaseDate>>
       ELSE LET c == CivilFromDays(releaseDate \div SecondsPerDay)
            IN  <<"ymd", c.year, c.month, c.day>>

(***************************************************************************)
(* Row Grouper (first loop of importFromGOGGalaxy).                        *)
(***************************************************************************)
\* Variant of ExecutableKey that keys an executable by its path alone.
ExecutableKey_PathOnly(path, label) == path

\* `${path}|${label || ''}`
ExecutableKey(path, label) ==
  path \o <<"|">> \o (IF TruthyS(label) THEN label ELSE <<>>)

\* releaseYear computed from a row's releaseDate (null when the date is falsy).
RowYear(date) == IF Truthy(date) THEN YearOf(date) ELSE NULL

\* game.x || null
OrNull(n) == IF Truthy(n) THEN n ELSE NULL
OrNullS(s) == IF TruthyS(s) THEN s ELSE NULLS

IndexOfKey(aggs, k) ==
  IF \E i \in 1..Len(aggs) : aggs[i].releaseKey = k
  THEN CHOOSE i \in 1..Len(aggs) : aggs[i].releaseKey = k
  ELSE 0

\* The aggregate seeded by the first row of a releaseKey.
SeedAggregate(game) ==
  [releaseKey    |-> game.releaseKey,
   titles        |-> <<game.title>>,
   title         |-> game.title,
   executables   |-> <<>>,
   executableSet |-> {},
   myRating      |-> OrNull(game.myRating),
   releaseYear   |-> RowYear(game.releaseDate),
   releaseDate   |-> OrNull(game.releaseDate)]

\* The aggregate after a repeat sighting of its releaseKey.
MergeRow(gameData, game) ==
  [gameData EXCEPT
     !.titles = IF TruthyS(game.title) /\ game.title \notin SeqToSet(@)
                THEN Append(@, game.title) ELSE @,
     !.myRating = IF ~Truthy(@) /\ Truthy(game.myRating)
                  THEN game.myRating ELSE @,
     !.releaseYear = IF ~Truthy(@) /\ Truthy(game.releaseDate)
                     THEN YearOf(game.releaseDate) ELSE @,
     !.releaseDate = IF ~Truthy(@) /\ Truthy(game.releaseDate)
                     THEN game.releaseDate ELSE @]

\* Executable appended unless its key was already seen for the release.
AddExecutable(gameData, game) ==
  IF ~TruthyS(game.executablePath) THEN gameData
  ELSE LET executableKey == ExecutableKey(game.executablePath, game.label)
       IN  IF executableKey \in gameData.executableSet THEN gameData
           ELSE [gameData EXCEPT
                   !.executableSet = @ \cup {executableKey},
                   !.executables = Append(@, [path  |-> game.executablePath,
                                              label |-> OrNullS(game.label)])]

\* One iteration of `for (const game of games)`.
GroupRow(aggs, game) ==
  IF game.releaseKey = NullKey THEN aggs
  ELSE LET i == IndexOfKey(aggs, game.releaseKey)
       IN  IF i = 0
           THEN Append(aggs, AddExecutable(SeedAggregate(game), game))
           ELSE [aggs EXCEPT ![i] = AddExecutable(MergeRow(aggs[i], game), game)]

RECURSIVE GroupFrom(_, _)
GroupFrom(aggs, games) ==
  IF games = <<>> THEN aggs
  ELSE GroupFrom(GroupRow(aggs, Head(games)), Tail(games))

\* delete gameData.executableSet; titles = Array.from(titles)
CleanAggregate(a) ==
  [releaseKey  |-> a.releaseKey,
   titles      |-> a.titles,
   title       |-> a.title,
   executables |-> a.executables,
   myRating    |-> a.myRating,
   releaseYear |-> a.releaseYear,
   releaseDate |-> a.releaseDate]

\* gamesByReleaseKey as built from the query rows, in insertion order.
GroupRows(games) ==
  LET aggs == GroupFrom(<<>>, games)
  IN  [i \in 1..Len(aggs) |-> CleanAggregate(aggs[i])]

(***************************************************************************)
(* Remote catalog service, as seen through common/igdb.js.                 *)
(***************************************************************************)
\* searchGameOnServer: the response for a query; a query the catalog does not
\* know resolves to an empty list, a failed request rejects (ok = FALSE).
searchGameOnServer(cat, q) ==
  IF q \in DOMAIN cat THEN cat[q] ELSE [ok |-> TRUE, games |-> <<>>]

\* One remote call as it is observed on the wire.
\* status is "ok", "conflict" (409 / already exists) or "error".
Call(op, gameId, text, label, releaseDate, stars, status) ==
  [op |-> op, gameId |-> gameId, text |-> text, label |-> label,
   releaseDate |-> releaseDate, stars |-> stars, status |-> status]

(***************************************************************************)
(* Identity Resolver.                                                      *)
(***************************************************************************)
NotFound(queries) ==
  [queries |-> queries, igdbGames |-> <<>>, usedTitle |-> NULLS, threw |-> FALSE]

\* Variant of SearchLoop that gives up once two words remain, never trying the
\* first word alone.
RECURSIVE SearchLoop_KeepTwoWords(_, _, _)
SearchLoop_KeepTwoWords(searchTitle, cat, queries) ==
  IF searchTitle = <<>> THEN NotFound(queries)
  ELSE LET resp == searchGameOnServer(cat, searchTitle)
           sent == Append(queries, searchTitle)
       IN  IF ~resp.ok
           THEN [queries |-> sent, igdbGames |-> <<>>, usedTitle |-> NULLS,
                 threw |-> TRUE]
           ELSE IF resp.games # <<>>
           THEN [queries |-> sent, igdbGames |-> resp.games,
                 usedTitle |-> searchTitle, threw |-> FALSE]
           ELSE LET words == SplitWS(searchTitle)
                IN  IF Len(words) <= 2 THEN NotFound(sent)
                    ELSE SearchLoop_KeepTwoWords(JoinSp(Front(words)), cat, sent)

\* The while loop of searchGameWithReducingTitle; queries is the list of the
\* search strings sent so far.
RECURSIVE SearchLoop(_, _, _)
SearchLoop(searchTitle, cat, queries) ==
  IF searchTitle = <<>> THEN NotFound(queries)
  ELSE LET resp == searchGameOnServer(cat, searchTitle)
           sent == Append(queries, searchTitle)
       IN  IF ~resp.ok
           THEN [queries |-> sent, igdbGames |-> <<>>, usedTitle |-> NULLS,
                 threw |-> TRUE]
           ELSE IF resp.games # <<>>
           THEN [queries |-> sent, igdbGames |-> resp.games,
                 usedTitle |-> searchTitle, threw |-> FALSE]
           ELSE LET words == SplitWS(searchTitle)
                IN  IF Len(words) <= 1 THEN NotFound(sent)
                    ELSE LET nextTitle == JoinSp(Front(words))
                         IN  IF nextTitle # <<>>
                             THEN SearchLoop(nextTitle, cat, sent)
                             ELSE NotFound(sent)

searchGameWithReducingTitle(title, cat) == SearchLoop(Trim(title), cat, <<>>)

\* Variant of SearchTitles that searches the first title only.
SearchTitles_FirstOnly(titlesToTry, cat, queries) ==
  IF titlesToTry = <<>> THEN NotFound(queries)
  ELSE LET r == searchGameWithReducingTitle(Head(titlesToTry), cat)
       IN  [r EXCEPT !.queries = queries \o r.queries]

\* `for (const title of titlesToTry)` of importGame: stops at the first title
\* with a result; a rejected search aborts the loop.
RECURSIVE SearchTitles(_, _, _)
SearchTitles(titlesToTry, cat, queries) ==
  IF titlesToTry = <<>> THEN NotFound(queries)
  ELSE LET r == searchGameWithReducingTitle(Head(titlesToTry), cat)
           sent == queries \o r.queries
       IN  IF r.threw \/ r.igdbGames # <<>>
           THEN [r EXCEPT !.queries = sent]
           ELSE SearchTitles(Tail(titlesToTry), cat, sent)

\* igdbGames.filter(g => !existingGameIds.has(g.id))
RECURSIVE FilterNotExisting(_, _)
FilterNotExisting(igdbGames, existingGameIds) ==
  IF igdbGames = <<>> THEN <<>>
  ELSE IF Head(igdbGames).id \in existingGameIds
       THEN FilterNotExisting(Tail(igdbGames), existingGameIds)
       ELSE <<Head(igdbGames)>> \o FilterNotExisting(Tail(igdbGames), existingGameIds)

\* Variant of ChooseGame that always takes the first candidate.
ChooseGame_First(igdbGames, existingGameIds) == igdbGames[1]

\* Selection policy: first candidate not yet on the server, else the first.
ChooseGame(igdbGames, existingGameIds) ==
  LET notExisting == FilterNotExisting(igdbGames, existingGameIds)
  IN  IF Len(notExisting) > 0 THEN notExisting[1] ELSE igdbGames[1]

(***************************************************************************)
(* Game Importer (importGame).                                             *)
(***************************************************************************)
\* Math.floor(new Date(releaseYear, 0, 1).getTime() / 1000)
YearStart(y) ==
  LET yy  == y - 1
      era == yy \div 400
      yoe == yy - era * 400
      doe == yoe * 365 + yoe \div 4 - yoe \div 100 + 306
  IN  (era * 146097 + doe - 719468) * SecondsPerDay

\* The date hint sent with every search of one release.
ReleaseDateForSearch(gogReleaseDate, releaseYear) ==
  IF gogReleaseDate # NULL THEN gogReleaseDate
  ELSE IF releaseYear # NULL THEN YearStart(releaseYear) ELSE NULL

DefaultLabel == <<"s", "c", "r", "i", "p", "t">>
BatSuffix == <<".", "b", "a", "t">>
ShSuffix == <<".", "s", "h">>

\* Variant of CleanLabel that tests for .sh even after it removed a .bat.
CleanLabel_StripBoth(execLabel) ==
  LET label == IF TruthyS(execLabel) THEN execLabel ELSE DefaultLabel
      noBat == IF EndsWith(label, BatSuffix)
               THEN SubSeq(label, 1, Len(label) - 4) ELSE label
  IN  IF EndsWith(noBat, ShSuffix) THEN SubSeq(noBat, 1, Len(noBat) - 3)
      ELSE noBat

\* Display label of an executable: exec.label || 'script' without a trailing
\* .bat or .sh.
CleanLabel(execLabel) ==
  LET label == IF TruthyS(execLabel) THEN execLabel ELSE DefaultLabel
  IN  IF EndsWith(label, BatSuffix) THEN SubSeq(label, 1, Len(label) - 4)
      ELSE IF EndsWith(label, ShSuffix) THEN SubSeq(label, 1, Len(label) - 3)
      ELSE label

UploadStatus(failed) == IF failed THEN "error" ELSE "ok"

\* Variant of UploadExecutables that leaves the loop at the first failed
\* upload.
RECURSIVE UploadExecutables_StopOnFailure(_, _, _)
UploadExecutables_StopOnFailure(executables, gameId, remote) ==
  IF executables = <<>> THEN <<>>
  ELSE LET exec == Head(executables)
           failed == exec.path \in remote.uploadErr.execs
       IN  IF ~TruthyS(exec.path) \/ exec.path \notin remote.execFiles
           THEN UploadExecutables_StopOnFailure(Tail(executables), gameId, remote)
           ELSE <<Call("uploadExecutable", gameId, exec.path,
                       CleanLabel(exec.label), NULL, NULL, UploadStatus(failed))>>
                \o (IF failed THEN <<>>
                    ELSE UploadExecutables_StopOnFailure(Tail(executables),
                                                         gameId, remote))

\* The upload loop over the executables: one call per executable whose path
\* exists, whatever the outcome of the calls before it.
RECURSIVE UploadExecutables(_, _, _)
UploadExecutables(executables, gameId, remote) ==
  IF executables = <<>> THEN <<>>
  ELSE LET exec == Head(executables)
           rest == UploadExecutables(Tail(executables), gameId, remote)
       IN  IF ~TruthyS(exec.path) \/ exec.path \notin remote.execFiles THEN rest
           ELSE <<Call("uploadExecutable", gameId, exec.path,
                       CleanLabel(exec.label), NULL, NULL,
                       UploadStatus(exec.path \in remote.uploadErr.execs))>> \o rest

CoverSuffixes == <<"_cover.jpg", "_cover.png", ".jpg", ".png">>
BackgroundSuffixes ==
  <<"_background.jpg", "_background.png", "_hero.jpg", "_hero.png">>

\* Variant of FirstExisting that takes the last pattern whose file exists.
FirstExisting_Last(releaseKey, suffixes, imageFiles) ==
  LET hits == {i \in 1..Len(suffixes) : <<releaseKey, suffixes[i]>> \in imageFiles}
  IN  IF hits = {} THEN 0 ELSE CHOOSE i \in hits : \A j \in hits : i >= j

\* Index of the first pattern whose file exists, 0 when none does.
FirstExisting(releaseKey, suffixes, imageFiles) ==
  LET hits == {i \in 1..Len(suffixes) : <<releaseKey, suffixes[i]>> \in imageFiles}
  IN  IF hits = {} THEN 0 ELSE CHOOSE i \in hits : \A j \in hits : i <= j

\* for (const p of patterns) { if exists { try upload catch warn; break } }
UploadImage(op, releaseKey, suffixes, gameId, remote) ==
  LET i == FirstExisting(releaseKey, suffixes, remote.imageFiles)
  IN  IF i = 0 THEN <<>>
      ELSE <<Call(op, gameId, <<releaseKey, suffixes[i]>>, NULLS, NULL, NULL,
                  UploadStatus(op \in remote.uploadErr.images))>>

\* Variant of UploadImages that looks for the background first.
UploadImages_BackgroundFirst(releaseKey, gameId, remote) ==
  IF releaseKey = NullKey THEN <<>>
  ELSE UploadImage("uploadBackground", releaseKey, BackgroundSuffixes,
                   gameId, remote)
       \o UploadImage("uploadCover", releaseKey, CoverSuffixes, gameId, remote)

\* The cover, then the background.
UploadImages(releaseKey, gameId, remote) ==
  IF releaseKey = NullKey THEN <<>>
  ELSE UploadImage("uploadCover", releaseKey, CoverSuffixes, gameId, remote)
       \o UploadImage("uploadBackground", releaseKey, BackgroundSuffixes,
                      gameId, remote)

NoResult ==
  [gameId |-> NULL, igdbId |-> NULL, title |-> NULLS, releaseDate |-> NULLS,
   stars |-> NULL]

NoDetails ==
  [ok |-> FALSE, name |-> NULLS, releaseDateFull |-> NULL, releaseDate |-> NULL]

\* Outcome of createGameViaAPI for an id on the present server state.
CreateStatus(gameId, remote) ==
  IF gameId \in remote.createErr THEN "error"
  ELSE IF gameId \in remote.serverGames THEN "conflict" ELSE "ok"

\* myRating (0-5) to stars (0-10)
Stars(myRating) == IF myRating # NULL THEN myRating * 2 ELSE NULL

\* Variant of PayloadReleaseDate that prefers the coarse year to the full
\* timestamp.
PayloadReleaseDate_YearFirst(fullGameData, gogReleaseDate) ==
  LET igdbReleaseDateFull == OrNull(fullGameData.releaseDateFull)
      igdbReleaseDate == OrNull(fullGameData.releaseDate)
      releaseDate == IF igdbReleaseDate # NULL THEN igdbReleaseDate
                     ELSE igdbReleaseDateFull
  IN  IF ~Truthy(releaseDate) /\ Truthy(gogReleaseDate)
      THEN gogReleaseDate ELSE releaseDate

\* Release date of the createGame payload: the first truthy one of the full
\* timestamp, the year of the details and the raw date of the library. The
\* raw date is a JSON number of the library, which parseInt leaves as it is.
PayloadReleaseDate(fullGameData, gogReleaseDate) ==
  LET igdbReleaseDateFull == OrNull(fullGameData.releaseDateFull)
      igdbReleaseDate == OrNull(fullGameData.releaseDate)
      releaseDate == IF igdbReleaseDateFull # NULL THEN igdbReleaseDateFull
                     ELSE igdbReleaseDate
  IN  IF ~Truthy(releaseDate) /\ Truthy(gogReleaseDate)
      THEN gogReleaseDate ELSE releaseDate

\* Variant of CreateAborts that lets only a successful creation through.
CreateAborts_OnConflict(createStatus) == createStatus # "ok"

\* Whether the outcome of createGameViaAPI is rethrown: a conflict (409 /
\* already exists) is swallowed, any other failure is not.
CreateAborts(createStatus) == createStatus = "error"

\* Variant of PayloadName that takes the name from the details only.
PayloadName_DetailsOnly(fullGameData, igdbGame) == fullGameData.name

\* fullGameData?.name || igdbGame.name
PayloadName(fullGameData, igdbGame) ==
  IF TruthyS(fullGameData.name) THEN fullGameData.name ELSE igdbGame.name

\* Everything of importGame after the identity is known (gameId, igdbGame).
ImportResolved(igdbGame, releaseKey, executables, myRating, gogReleaseDate, options, remote, searchCalls) ==
  LET gameId == igdbGame.id
      fetched == IF options.skipIgdbFetch THEN NoDetails
                 ELSE IF gameId \in DOMAIN remote.details
                      THEN remote.details[gameId] ELSE NoDetails
      fullGameData == IF fetched.ok THEN fetched ELSE NoDetails
      detailCalls ==
        IF options.skipIgdbFetch THEN <<>>
        ELSE <<Call("getGameDetails", gameId, NULLS, NULLS, NULL, NULL,
                    UploadStatus(~fetched.ok))>>
      name == PayloadName(fullGameData, igdbGame)
      releaseDate == PayloadReleaseDate(fullGameData, gogReleaseDate)
      stars == Stars(myRating)
      createStatus == CreateStatus(gameId, remote)
      createCalls ==
        IF options.skipCreate THEN <<>>
        ELSE <<Call("createGame", gameId, name, NULLS, releaseDate, stars,
                    createStatus)>>
      before == searchCalls \o detailCalls \o createCalls
  IN  IF ~options.skipCreate /\ CreateAborts(createStatus)
      THEN [outcome |-> "threw", calls |-> before, result |-> NoResult,
            created |-> {}]
      ELSE [outcome |-> "result",
            calls |-> before \o UploadExecutables(executables, gameId, remote)
                             \o UploadImages(releaseKey, gameId, remote),
            result |-> [gameId |-> gameId, igdbId |-> gameId, title |-> name,
                        releaseDate |-> formatReleaseDateForMap(releaseDate),
                        stars |-> stars],
            created |-> IF ~options.skipCreate /\ createStatus = "ok"
                        THEN {gameId} ELSE {}]

\* The search calls of one release: every query with the release's date hint;
\* only the last call can be the rejected one.
SearchCalls(queries, hint, threw) ==
  [i \in 1..Len(queries) |->
     Call("search", NULL, queries[i], NULLS, hint, NULL,
          UploadStatus(threw /\ i = Len(queries)))]

importGame(gameTitles, releaseKey, executables, myRating, releaseYear, gogReleaseDate, options, remote) ==
  LET titlesToTry == gameTitles
      primaryTitle == titlesToTry[1]
  IN  IF Truthy(options.igdbId)
      THEN ImportResolved([id |-> options.igdbId, name |-> primaryTitle],
                          releaseKey, executables, myRating, gogReleaseDate,
                          options, remote, <<>>)
      ELSE LET hint == ReleaseDateForSearch(gogReleaseDate, releaseYear)
               found == SearchTitles(titlesToTry, remote.catalog, <<>>)
               searchCalls == SearchCalls(found.queries, hint, found.threw)
           IN  IF found.threw
               THEN [outcome |-> "threw", calls |-> searchCalls,
                     result |-> NoResult, created |-> {}]
               ELSE IF found.igdbGames = <<>>
               THEN [outcome |-> "null", calls |-> searchCalls,
                     result |-> NoResult, created |-> {}]
               ELSE ImportResolved(
                      ChooseGame(found.igdbGames, options.existingGameIds),
                      releaseKey, executables, myRating, gogReleaseDate,
                      options, remote, searchCalls)

(***************************************************************************)
(* Import Map Store.                                                       *)
(***************************************************************************)
\* An entry of the in-memory map; absent fields read as null.
Entry(igdbId, title, releaseDate, stars) ==
  [igdbId |-> igdbId, title |-> title, releaseDate |-> releaseDate,
   stars |-> stars]

\* An entry as it stands in the JSON file: a bare number (older files) or an
\* object.
FileNumber(n) ==
  [kind |-> "number", igdbId |-> n, title |-> NULLS, releaseDate |-> NULLS,
   stars |-> NULL]
FileObject(e) ==
  [kind |-> "object", igdbId |-> e.igdbId, title |-> e.title,
   releaseDate |-> e.releaseDate, stars |-> e.stars]

NoFile == [exists |-> FALSE, data |-> <<>>]

MapSet(m, k, v) == [x \in (DOMAIN m) \cup {k} |-> IF x = k THEN v ELSE m[x]]

\* Variant of loadReleaseKeyMap that keeps the entry under the empty key.
loadReleaseKeyMap_KeepsEmptyKey(file, readOk) ==
  IF ~file.exists THEN [importMap |-> <<>>, existed |-> FALSE]
  ELSE IF ~readOk THEN [importMap |-> <<>>, existed |-> TRUE]
  ELSE [importMap |->
          [releaseKey \in DOMAIN file.data |->
             LET entry == file.data[releaseKey]
             IN  IF entry.kind = "object"
                 THEN Entry(entry.igdbId, entry.title, entry.releaseDate,
                            entry.stars)
                 ELSE Entry(entry.igdbId, NULLS, NULLS, NULL)],
        existed |-> TRUE]

\* loadReleaseKeyMap: readOk is whether readFileSync and JSON.parse succeed.
loadReleaseKeyMap(file, readOk) ==
  IF ~file.exists THEN [importMap |-> <<>>, existed |-> FALSE]
  ELSE IF ~readOk THEN [importMap |-> <<>>, existed |-> TRUE]
  ELSE [importMap |->
          [releaseKey \in (DOMAIN file.data) \ {NullKey} |->
             LET entry == file.data[releaseKey]
             IN  IF entry.kind = "object"
                 THEN Entry(entry.igdbId, entry.title, entry.releaseDate,
                            entry.stars)
                 ELSE Entry(entry.igdbId, NULLS, NULLS, NULL)],
        existed |-> TRUE]

\* Variant of saveReleaseKeyMap that writes the older format, a bare id per
\* releaseKey.
saveReleaseKeyMap_IdsOnly(importMap) ==
  [exists |-> TRUE,
   data |-> [releaseKey \in DOMAIN importMap |->
               FileNumber(importMap[releaseKey].igdbId)]]

\* Variant of saveReleaseKeyMap that serialises the Map object itself, which
\* JSON.stringify prints as an empty object.
saveReleaseKeyMap_EmptyObject(importMap) == [exists |-> TRUE, data |-> <<>>]

\* saveReleaseKeyMap: the file after a successful write of the whole map.
saveReleaseKeyMap(importMap) ==
  [exists |-> TRUE,
   data |-> [releaseKey \in DOMAIN importMap |-> FileObject(importMap[releaseKey])]]

\* buildReleaseKeyIdMap: releaseKey -> igdbId of the persisted entries.
buildReleaseKeyIdMap(importMap) ==
  [releaseKey \in DOMAIN importMap |-> importMap[releaseKey].igdbId]

(***************************************************************************)
(* Collection Importer (importCollections).                                *)
(***************************************************************************)
\* String.prototype.toLowerCase on the letters the inputs use.
LowerOf ==
  [c \in {"A", "B", "T", "U", "X", "Y", "Z"} |->
     CASE c = "A" -> "a" [] c = "B" -> "b" [] c = "T" -> "t" [] c = "U" -> "u"
       [] c = "X" -> "x" [] c = "Y" -> "y" [] c = "Z" -> "z"]

toLowerCase(s) ==
  [i \in 1..Len(s) |-> IF s[i] \in DOMAIN LowerOf THEN LowerOf[s[i]] ELSE s[i]]

\* The set of the lower-cased titles of the remote collections; empty when
\* getCollectionsViaAPI fails (the failure is only warned about).
ExistingCollections(remote) ==
  IF ~remote.listOk THEN {}
  ELSE {toLowerCase(remote.existing[i]) :
          i \in {j \in 1..Len(remote.existing) : TruthyS(remote.existing[j])}}

\* Variant of TagIsSkipped that compares the tag as written.
TagIsSkipped_CaseSensitive(existingCollections, tag) ==
  tag \in existingCollections

\* existingCollections.has(tag.toLowerCase())
TagIsSkipped(existingCollections, tag) ==
  toLowerCase(tag) \in existingCollections

\* tagGamesMap: the rows grouped by tag, tags in order of first appearance and
\* members in row order.
RECURSIVE TagGamesMap(_, _)
TagGamesMap(acc, tagsData) ==
  IF tagsData = <<>> THEN acc
  ELSE LET row == Head(tagsData)
           member == [releaseKey |-> row.releaseKey,
                      releaseDate |-> OrNull(row.releaseDate)]
           at == {i \in 1..Len(acc) : acc[i].tag = row.tag}
       IN  IF at = {}
           THEN TagGamesMap(Append(acc, [tag |-> row.tag,
                                         members |-> <<member>>]),
                            Tail(tagsData))
           ELSE LET i == CHOOSE i \in at : TRUE
                IN  TagGamesMap([acc EXCEPT ![i].members = Append(@, member)],
                                Tail(tagsData))

\* What is observed of the resolution of one member; a search call carries
\* the title of titlesToTry it was made for and the query it sent.
SearchEvent(title, q, date) ==
  [op |-> "search", title |-> title, text |-> q, id |-> NULL, date |-> date]
ProbeEvent(id) ==
  [op |-> "probeDir", title |-> NULLS, text |-> NULLS, id |-> id, date |-> NULL]
ReaddirEvent ==
  [op |-> "readdir", title |-> NULLS, text |-> NULLS, id |-> NULL, date |-> NULL]

Missing(title, releaseKey, igdbId) ==
  [title |-> title, releaseKey |-> releaseKey, igdbId |-> igdbId]

\* The date hint of the searches of a member: the date of the aggregate, else
\* the start of its release year, else the date of the tag row.
CollectionDateHint(gameData, releaseDate) ==
  IF Truthy(gameData.releaseDate) THEN gameData.releaseDate
  ELSE IF gameData.releaseYear # NULL THEN YearStart(gameData.releaseYear)
  ELSE IF Truthy(releaseDate) THEN releaseDate
  ELSE NULL

\* igdbGames[0].id
FirstCandidate(igdbGames) == igdbGames[1].id

\* Variant of IsCached for which nothing is ever in the cache.
IsCached_Never(cache, title) == FALSE

\* titleToIgdbIdCache.get(title) is truthy.
IsCached(cache, title) == title \in DOMAIN cache

\* The loop over titlesToTry: a cached title ends the loop without a search;
\* otherwise the title is searched, a failed search goes on to the next title,
\* a found game is cached under the title and ends the loop.
RECURSIVE SearchMemberTitles(_, _, _, _, _)
SearchMemberTitles(titlesToTry, date, cache, cat, events) ==
  IF titlesToTry = <<>>
  THEN [foundIgdbId |-> NULL, cache |-> cache, events |-> events]
  ELSE LET title == Head(titlesToTry)
       IN  IF IsCached(cache, title)
           THEN [foundIgdbId |-> cache[title], cache |-> cache,
                 events |-> events]
           ELSE LET r == searchGameWithReducingTitle(title, cat)
                    sent == events \o [i \in 1..Len(r.queries) |->
                                         SearchEvent(title, r.queries[i], date)]
                IN  IF r.threw \/ r.igdbGames = <<>>
                    THEN SearchMemberTitles(Tail(titlesToTry), date, cache,
                                            cat, sent)
                    ELSE [foundIgdbId |-> FirstCandidate(r.igdbGames),
                          cache |-> (title :> FirstCandidate(r.igdbGames))
                                    @@ cache,
                          events |-> sent]

\* A directory of content/games named after the id that holds a metadata.json.
DirectoryOfId(fs, id) ==
  \E i \in 1..Len(fs.dirs) :
    /\ fs.dirs[i].id = id
    /\ fs.dirs[i].isDirectory
    /\ fs.dirs[i].hasMetadata

\* title.toLowerCase().trim()
NormalizedTitle(title) == Trim(toLowerCase(title))

\* Whether the scan takes the directory for the title: a directory with a
\* readable manifest whose name, or whose title if the name is absent or
\* differs, is the title, and whose own name is a number.
ManifestMatches(dir, title) ==
  /\ dir.isDirectory /\ dir.hasMetadata /\ dir.jsonOk
  /\ IF TruthyS(dir.name) /\ NormalizedTitle(dir.name) = NormalizedTitle(title)
     THEN dir.id # NULL
     ELSE /\ TruthyS(dir.title)
          /\ NormalizedTitle(dir.title) = NormalizedTitle(title)
          /\ dir.id # NULL

\* The scan by title: titles in order, directories in readdir order; the id
\* of the first directory taken, or null.
ScanByTitle(titlesToTry, dirs) ==
  LET hits == {p \in (1..Len(titlesToTry)) \X (1..Len(dirs)) :
                 ManifestMatches(dirs[p[2]], titlesToTry[p[1]])}
  IN  IF hits = {} THEN NULL
      ELSE LET first == CHOOSE p \in hits :
                          \A q \in hits :
                            p[1] < q[1] \/ (p[1] = q[1] /\ p[2] <= q[2])
           IN  dirs[first[2]].id

MemberResult(tier, ids, missing, events, cache, threw) ==
  [tier |-> tier, ids |-> ids, missing |-> missing, events |-> events,
   cache |-> cache, threw |-> threw]

\* Variant of ResolveBySearch that scans by title before it looks for the
\* directory named after the id found.
ResolveBySearch_ScanFirst(member, gameData, cache, remote, fs) ==
  LET s == SearchMemberTitles(gameData.titles,
             CollectionDateHint(gameData, member.releaseDate), cache,
             remote.catalog, <<>>)
      byTitle == ScanByTitle(gameData.titles, fs.dirs)
  IN  IF ~fs.gamesDir
      THEN MemberResult("search", <<>>,
             <<Missing(gameData.title, member.releaseKey, NULL)>>,
             s.events, s.cache, FALSE)
      ELSE IF ~fs.readdirOk
      THEN MemberResult("search", <<>>, <<>>,
             Append(s.events, ReaddirEvent), s.cache, TRUE)
      ELSE IF byTitle # NULL
      THEN MemberResult("search", <<byTitle>>, <<>>,
             Append(s.events, ReaddirEvent), s.cache, FALSE)
      ELSE IF s.foundIgdbId # NULL /\ DirectoryOfId(fs, s.foundIgdbId)
      THEN MemberResult("search", <<s.foundIgdbId>>, <<>>,
             s.events \o <<ReaddirEvent, ProbeEvent(s.foundIgdbId)>>,
             s.cache, FALSE)
      ELSE MemberResult("search", <<>>,
             <<Missing(gameData.title, member.releaseKey, s.foundIgdbId)>>,
             Append(s.events, ReaddirEvent), s.cache, FALSE)

\* A member that is in neither map and has an aggregate: the titles are
\* searched, then the directory named after the id found is looked for, then
\* the manifests are scanned by title; readdirSync may throw.
ResolveBySearch(member, gameData, cache, remote, fs) ==
  LET s == SearchMemberTitles(gameData.titles,
             CollectionDateHint(gameData, member.releaseDate), cache,
             remote.catalog, <<>>)
      probed == IF s.foundIgdbId # NULL
                THEN Append(s.events, ProbeEvent(s.foundIgdbId))
                ELSE s.events
      byTitle == ScanByTitle(gameData.titles, fs.dirs)
  IN  IF ~fs.gamesDir
      THEN MemberResult("search", <<>>,
             <<Missing(gameData.title, member.releaseKey, NULL)>>,
             s.events, s.cache, FALSE)
      ELSE IF s.foundIgdbId # NULL /\ DirectoryOfId(fs, s.foundIgdbId)
      THEN MemberResult("search", <<s.foundIgdbId>>, <<>>, probed, s.cache,
                        FALSE)
      ELSE IF ~fs.readdirOk
      THEN MemberResult("search", <<>>, <<>>, Append(probed, ReaddirEvent),
                        s.cache, TRUE)
      ELSE IF byTitle # NULL
      THEN MemberResult("search", <<byTitle>>, <<>>,
                        Append(probed, ReaddirEvent), s.cache, FALSE)
      ELSE MemberResult("search", <<>>,
             <<Missing(gameData.title, member.releaseKey, s.foundIgdbId)>>,
             Append(probed, ReaddirEvent), s.cache, FALSE)

\* A member whose id is known from gameReleaseKeyToIgdbIdMap only: the
\* directory named after the id is looked for, nothing else.
ResolveByIgdbId(member, gameTitle, igdbIdToSearch, cache, fs) ==
  IF fs.gamesDir /\ DirectoryOfId(fs, igdbIdToSearch)
  THEN MemberResult("persisted", <<igdbIdToSearch>>, <<>>,
                    <<ProbeEvent(igdbIdToSearch)>>, cache, FALSE)
  ELSE MemberResult("persisted", <<>>,
         <<Missing(gameTitle, member.releaseKey, igdbIdToSearch)>>,
         IF fs.gamesDir THEN <<ProbeEvent(igdbIdToSearch)>> ELSE <<>>,
         cache, FALSE)

UnknownTitle == <<"U", "n", "k", "n", "o", "w", "n">>

\* Variant of UnknownMember that records nothing for the member.
UnknownMember_Dropped(releaseKey, cache) ==
  MemberResult("unknown", <<>>, <<>>, <<>>, cache, FALSE)

\* A member in neither map for which the run has no aggregate: recorded as
\* missing under the title 'Unknown'.
UnknownMember(releaseKey, cache) ==
  MemberResult("unknown", <<>>, <<Missing(UnknownTitle, releaseKey, NULL)>>,
               <<>>, cache, FALSE)

\* const gameId = gameReleaseKeyMap.get(releaseKey); if (gameId)
SessionHolds(gameReleaseKeyMap, releaseKey) ==
  releaseKey \in DOMAIN gameReleaseKeyMap /\ Truthy(gameReleaseKeyMap[releaseKey])

\* The body of the loop over the members of a tag.
ResolveMember(member, sessionMap, igdbIdMap, games, cache, remote, fs) ==
  LET releaseKey == member.releaseKey
      at == IndexOfKey(games, releaseKey)
      gameTitle == IF at # 0 /\ TruthyS(games[at].title) THEN games[at].title
                   ELSE UnknownTitle
  IN  IF SessionHolds(sessionMap, releaseKey)
      THEN MemberResult("session", <<sessionMap[releaseKey]>>, <<>>, <<>>,
                        cache, FALSE)
      ELSE IF releaseKey \in DOMAIN igdbIdMap /\ Truthy(igdbIdMap[releaseKey])
      THEN ResolveByIgdbId(member, gameTitle, igdbIdMap[releaseKey], cache, fs)
      ELSE IF at # 0 /\ games[at].titles # <<>>
      THEN ResolveBySearch(member, games[at], cache, remote, fs)
      ELSE UnknownMember(releaseKey, cache)

\* What is kept of the resolution of a member.
MemberRecord(releaseKey, m) ==
  [releaseKey |-> releaseKey, tier |-> m.tier, ids |-> m.ids,
   missing |-> m.missing, events |-> m.events]

\* The loop over the members of a tag; it ends where a member throws. (The
\* resolution m of the first member is bound as an element of a singleton so
\* that it is computed once.)
RECURSIVE ResolveMembers(_, _, _, _, _, _, _, _)
ResolveMembers(members, sessionMap, igdbIdMap, games, cache, remote, fs, acc) ==
  IF members = <<>> THEN [members |-> acc, cache |-> cache, threw |-> FALSE]
  ELSE CHOOSE out \in
         {IF m.threw
          THEN [members |-> Append(acc, MemberRecord(Head(members).releaseKey, m)),
                cache |-> m.cache, threw |-> TRUE]
          ELSE ResolveMembers(Tail(members), sessionMap, igdbIdMap, games,
                 m.cache, remote, fs,
                 Append(acc, MemberRecord(Head(members).releaseKey, m))) :
            m \in {ResolveMember(Head(members), sessionMap, igdbIdMap, games,
                                 cache, remote, fs)}} : TRUE

RECURSIVE Flatten(_)
Flatten(seqs) == IF seqs = <<>> THEN <<>> ELSE Head(seqs) \o Flatten(Tail(seqs))

\* Variant of UniqueGameIds that keeps the last occurrence of every id.
RECURSIVE UniqueGameIds_KeepLast(_)
UniqueGameIds_KeepLast(gameIds) ==
  IF gameIds = <<>> THEN <<>>
  ELSE IF Head(gameIds) \in SeqToSet(Tail(gameIds))
       THEN UniqueGameIds_KeepLast(Tail(gameIds))
       ELSE <<Head(gameIds)>> \o UniqueGameIds_KeepLast(Tail(gameIds))

\* The loop over gameIds with seenGameIds.
RECURSIVE UniqueFrom(_, _, _)
UniqueFrom(gameIds, seenGameIds, uniqueGameIds) ==
  IF gameIds = <<>> THEN uniqueGameIds
  ELSE IF Head(gameIds) \in seenGameIds
       THEN UniqueFrom(Tail(gameIds), seenGameIds, uniqueGameIds)
       ELSE UniqueFrom(Tail(gameIds), seenGameIds \cup {Head(gameIds)},
                       Append(uniqueGameIds, Head(gameIds)))

UniqueGameIds(gameIds) == UniqueFrom(gameIds, {}, <<>>)

\* if (collectionId && uniqueGameIds.length > 0): the response of
\* createCollectionViaAPI carried an id and the list is not empty.
SendsMembers(createStatus, uniqueGameIds) ==
  createStatus = "ok" /\ uniqueGameIds # <<>>

\* The status of createCollectionViaAPI for a tag: "ok" (a response with an
\* id), "noid" (a response without), "conflict" or "error".
CreateCollectionStatus(remote, tag) ==
  IF tag \in DOMAIN remote.createStatus THEN remote.createStatus[tag] ELSE "ok"

\* One tag of the loop over tagGamesMap.
TagResult(tag, skippedTag, members, gameIds, creates, sent, sentStatus) ==
  [tag |-> tag, skipped |-> skippedTag, members |-> members,
   gameIds |-> gameIds, creates |-> creates, sent |-> sent,
   sentStatus |-> sentStatus]

\* A tag that is not skipped, once its members are resolved: the ids
\* without duplicates, createCollectionViaAPI and, if it answered with an id
\* and there is an id to send, updateCollectionGamesViaAPI, whose failure
\* the catch of the tag only warns about; nothing of this if the resolution
\* threw.
TagAttempt(tag, members, remote, threw) ==
  LET gameIds == Flatten([i \in 1..Len(members) |-> members[i].ids])
      uniqueGameIds == UniqueGameIds(gameIds)
      status == CreateCollectionStatus(remote, tag)
  IN  IF threw THEN TagResult(tag, FALSE, members, gameIds, <<>>, <<>>, <<>>)
      ELSE IF SendsMembers(status, uniqueGameIds)
           THEN TagResult(tag, FALSE, members, gameIds, <<status>>,
                          <<uniqueGameIds>>,
                          <<UploadStatus(tag \in remote.updateErr)>>)
           ELSE TagResult(tag, FALSE, members, gameIds, <<status>>, <<>>,
                          <<>>)

RECURSIVE ImportTags(_, _, _, _, _, _, _, _, _)
ImportTags(tagGames, existingCollections, sessionMap, igdbIdMap, games, cache, remote, fs, acc) ==
  IF tagGames = <<>> THEN [tags |-> acc, threw |-> FALSE]
  ELSE LET tag == Head(tagGames).tag
       IN  IF TagIsSkipped(existingCollections, tag)
           THEN ImportTags(Tail(tagGames), existingCollections, sessionMap,
                           igdbIdMap, games, cache, remote, fs,
                           Append(acc, TagResult(tag, TRUE, <<>>, <<>>, <<>>,
                                                 <<>>, <<>>)))
           ELSE CHOOSE out \in
                  {IF r.threw
                   THEN [tags |-> Append(acc, TagAttempt(tag, r.members, remote,
                                                         TRUE)),
                         threw |-> TRUE]
                   ELSE ImportTags(Tail(tagGames), existingCollections,
                          sessionMap, igdbIdMap, games, r.cache, remote, fs,
                          Append(acc, TagAttempt(tag, r.members, remote,
                                                 FALSE))) :
                     r \in {ResolveMembers(Head(tagGames).members, sessionMap,
                                           igdbIdMap, games, cache, remote, fs,
                                           <<>>)}} : TRUE

\* importCollections: what it did for every tag it reached, and whether it
\* threw.
importCollections(sessionMap, igdbIdMap, tagsData, games, remote, fs) ==
  ImportTags(TagGamesMap(<<>>, tagsData), ExistingCollections(remote),
             sessionMap, igdbIdMap, games, <<>>, remote, fs, <<>>)

NoCollections == [tags |-> <<>>, threw |-> FALSE]

(***************************************************************************)
(* Command line (cli.js): dotenv, parseArgs and the configuration that     *)
(* main hands to the importer.                                             *)
(***************************************************************************)
\* The option value true (a flag given without a value); no token equals it.
TRUES == <<"true">>

\* parseInt of something that does not start with a digit.
NaN == -2

\* a || b on nullable strings.
OrElse(a, b) == IF TruthyS(a) THEN a ELSE b

\* dotenv.config(): an entry of the .env file is set in process.env unless
\* the variable is already there.
dotenvConfig(shellEnv, dotenvFile) ==
  [k \in (DOMAIN shellEnv) \cup (DOMAIN dotenvFile) |->
     IF k \in DOMAIN shellEnv THEN shellEnv[k] ELSE dotenvFile[k]]

\* process.env.NAME
EnvOf(processEnv, name) ==
  IF name \in DOMAIN processEnv THEN processEnv[name] ELSE NULLS

\* arg.startsWith('--')
StartsWithDashes(arg) == Len(arg) >= 2 /\ arg[1] = "-" /\ arg[2] = "-"

\* arg.slice(2).replace(/-/g, '_')
OptionKey(arg) ==
  [i \in 1..(Len(arg) - 2) |-> IF arg[i + 2] = "-" THEN "_" ELSE arg[i + 2]]

\* The loop of parseArgs from position i on.
RECURSIVE ParseFrom(_, _, _)
ParseFrom(args, i, options) ==
  IF i > Len(args) THEN options
  ELSE IF StartsWithDashes(args[i])
       THEN IF /\ i + 1 <= Len(args)
               /\ args[i + 1] # <<>>
               /\ ~StartsWithDashes(args[i + 1])
            THEN ParseFrom(args, i + 2,
                           MapSet(options, OptionKey(args[i]), args[i + 1]))
            ELSE ParseFrom(args, i + 1,
                           MapSet(options, OptionKey(args[i]), TRUES))
       ELSE ParseFrom(args, i + 1, options)

parseArgs(args) == ParseFrom(args, 1, <<>>)

\* options.key
OptionOf(options, key) ==
  IF key \in DOMAIN options THEN options[key] ELSE NULLS

Digits == <<"0", "1", "2", "3", "4", "5", "6", "7", "8", "9">>
IsDigit(c) == \E d \in 1..10 : Digits[d] = c
DigitValue(c) == (CHOOSE d \in 1..10 : Digits[d] = c) - 1

\* parseInt(s, 10): the number written by the digits s starts with.
RECURSIVE ParseDigits(_, _)
ParseDigits(s, acc) ==
  IF s = <<>> \/ ~IsDigit(Head(s)) THEN acc
  ELSE ParseDigits(Tail(s), acc * 10 + DigitValue(Head(s)))

parseInt(s) ==
  IF s = TRUES \/ s = <<>> \/ ~IsDigit(Head(s)) THEN NaN
  ELSE ParseDigits(s, 0)

\* The names main reads: tokens of the command line and option keys.
GogGalaxy == <<"g", "o", "g", "-", "g", "a", "l", "a", "x", "y">>
HelpLong == <<"-", "-", "h", "e", "l", "p">>
HelpShort == <<"-", "h">>
TrueText == <<"t", "r", "u", "e">>
metadata_path == <<"m", "e", "t", "a", "d", "a", "t", "a", "_", "p", "a", "t", "h">>
galaxy_db_path == <<"g", "a", "l", "a", "x", "y", "_", "d", "b", "_", "p", "a", "t", "h">>
galaxy_images_path == <<"g", "a", "l", "a", "x", "y", "_", "i", "m", "a", "g", "e", "s", "_", "p", "a", "t", "h">>
server_url == <<"s", "e", "r", "v", "e", "r", "_", "u", "r", "l">>
twitch_client_id == <<"t", "w", "i", "t", "c", "h", "_", "c", "l", "i", "e", "n", "t", "_", "i", "d">>
twitch_client_secret == <<"t", "w", "i", "t", "c", "h", "_", "c", "l", "i", "e", "n", "t", "_", "s", "e", "c", "r", "e", "t">>
limit_key == <<"l", "i", "m", "i", "t">>
search_key == <<"s", "e", "a", "r", "c", "h">>
games_only == <<"g", "a", "m", "e", "s", "_", "o", "n", "l", "y">>
collections_only == <<"c", "o", "l", "l", "e", "c", "t", "i", "o", "n", "s", "_", "o", "n", "l", "y">>
gamesOnlyKey == <<"g", "a", "m", "e", "s", "O", "n", "l", "y">>
collectionsOnlyKey == <<"c", "o", "l", "l", "e", "c", "t", "i", "o", "n", "s", "O", "n", "l", "y">>

\* The defaults of main: the two paths under the home directory and the
\* local server.
DefaultDbPath == <<"~", "d", "b">>
DefaultImagesPath == <<"~", "i", "m", "g">>
DefaultServerUrl == <<"l", "o", "c", "a", "l">>

\* process.env.NAME || options.key || fallback, as main writes it for every
\* string setting.
Setting(processEnv, options, name, key, fallback) ==
  OrElse(EnvOf(processEnv, name), OrElse(OptionOf(options, key), fallback))

\* process.env.LIMIT ? parseInt(process.env.LIMIT, 10)
\*                   : (options.limit ? parseInt(options.limit, 10) : null)
LimitSetting(processEnv, options) ==
  IF TruthyS(EnvOf(processEnv, "LIMIT"))
  THEN parseInt(EnvOf(processEnv, "LIMIT"))
  ELSE IF TruthyS(OptionOf(options, limit_key))
       THEN parseInt(OptionOf(options, limit_key))
       ELSE NULL

\* process.env.NAME === 'true' || options.key === true || options.camel === true
FlagSetting(processEnv, options, name, key, camel) ==
  \/ EnvOf(processEnv, name) = TrueText
  \/ OptionOf(options, key) = TRUES
  \/ OptionOf(options, camel) = TRUES

NoConfig == [exit |-> "none"]

\* main: the configuration built from process.env and the options, and how
\* main goes on: process.exit(0), process.exit(1) or the call of the handler.
main(args, processEnv, tokenFromFile) ==
  IF args = <<>> \/ args[1] = HelpLong \/ args[1] = HelpShort
  THEN [exit |-> "exit0"]
  ELSE IF args[1] # GogGalaxy THEN [exit |-> "exit1"]
  ELSE
    LET options == parseArgs(args)
        metadataPath ==
          Setting(processEnv, options, "METADATA_PATH", metadata_path,
                  IF Len(args) >= 2 THEN args[2] ELSE NULLS)
        config ==
          [metadataPath |-> metadataPath,
           galaxyDbPath |->
             Setting(processEnv, options, "GALAXY_DB_PATH", galaxy_db_path,
                     DefaultDbPath),
           galaxyImagesPath |->
             Setting(processEnv, options, "GALAXY_IMAGES_PATH",
                     galaxy_images_path, DefaultImagesPath),
           serverUrl |->
             Setting(processEnv, options, "SERVER_URL", server_url,
                     DefaultServerUrl),
           apiToken |-> tokenFromFile,
           twitchClientId |->
             Setting(processEnv, options, "TWITCH_CLIENT_ID",
                     twitch_client_id, NULLS),
           twitchClientSecret |->
             Setting(processEnv, options, "TWITCH_CLIENT_SECRET",
                     twitch_client_secret, NULLS),
           limit |-> LimitSetting(processEnv, options),
           search |-> Setting(processEnv, options, "SEARCH", search_key, NULLS),
           gamesOnly |->
             FlagSetting(processEnv, options, "GAMES_ONLY", games_only,
                         gamesOnlyKey),
           collectionsOnly |->
             FlagSetting(processEnv, options, "COLLECTIONS_ONLY",
                         collections_only, collectionsOnlyKey)]
    IN  IF ~TruthyS(metadataPath) THEN [exit |-> "exit1"]
        ELSE IF \/ ~TruthyS(config.serverUrl)
                \/ ~TruthyS(config.apiToken)
                \/ ~TruthyS(config.twitchClientId)
                \/ ~TruthyS(config.twitchClientSecret)
             THEN [exit |-> "exit1"]
             ELSE [exit |-> "handler", config |-> config]

(***************************************************************************)
(* State.                                                                  *)
(***************************************************************************)
VARIABLES
  env,                \* what the run reads: query rows, remote behaviour, files
  serverGames,        \* ids of the games that exist on the remote catalog
  mapFile,            \* the import-map JSON file on disk
  pc,                 \* position of importFromGOGGalaxy
  runNo,              \* number of the current run (0 before the first)
  importMap,          \* in-memory import map
  loadedMap,          \* the import map as loaded at the start of the run
  fileAtStart,        \* the import-map file as it was at the start of the run
  gamesByReleaseKey,  \* release aggregates in insertion order
  currentIndex,       \* releases processed so far
  existingGameIds,    \* ids used by the selection policy
  gameReleaseKeyMap,  \* releaseKey -> game id (session map)
  successCount,
  skipCount,
  importMapDirty,
  calls,              \* remote calls issued, in order
  skipped,            \* releaseKeys counted as skipped, in order (this run)
  searchIn,           \* input of a stand-alone reducing-title search
  searchOut,          \* its result
  trace,              \* map read and database operations of the run, in order
  outcome,            \* "none", or how the run ended: "returned" or "threw"
  tagsData,           \* rows of the tags query
  collections,        \* what importCollections did
  cli,                \* command line, environment, .env file and tokens.json
  config              \* what main made of them

vars == <<env, serverGames, mapFile, pc, runNo, importMap, loadedMap, fileAtStart, gamesByReleaseKey, currentIndex,
          existingGameIds, gameReleaseKeyMap, successCount, skipCount,
          importMapDirty, calls, skipped, searchIn, searchOut, trace,
          outcome, tagsData, collections, cli, config>>

collVars == <<trace, outcome, tagsData, collections>>

runVars == <<importMap, loadedMap, fileAtStart, gamesByReleaseKey,
             currentIndex, existingGameIds, gameReleaseKeyMap, successCount,
             skipCount, importMapDirty, skipped>>

\* A remote call of the log: the call with the run and the release it is for.
LogEntry(run, releaseKey, c) ==
  [run |-> run, rk |-> releaseKey, op |-> c.op, gameId |-> c.gameId,
   text |-> c.text, label |-> c.label, releaseDate |-> c.releaseDate,
   stars |-> c.stars, status |-> c.status]

LogAll(run, releaseKey, cs) ==
  [i \in 1..Len(cs) |-> LogEntry(run, releaseKey, cs[i])]

(***************************************************************************)
(* Run Orchestrator (importFromGOGGalaxy).                                 *)
(***************************************************************************)
\* The configuration and the I/O outcomes of the current run.
Config == env.runs[runNo]
Upload == runNo > 0 /\ Config.upload

\* Variant of SetupValid that does not test the API token.
SetupValid_NoToken(setup) ==
  /\ setup.dbFile /\ setup.metadataDir
  /\ setup.serverUrl
  /\ setup.twitchClientId /\ setup.twitchClientSecret

\* The checks at the head of importFromGOGGalaxy: both paths exist and the
\* server URL, the API token and the two search credentials are set.
SetupValid(setup) ==
  /\ setup.dbFile /\ setup.metadataDir
  /\ setup.serverUrl /\ setup.apiToken
  /\ setup.twitchClientId /\ setup.twitchClientSecret

\* Variant of ClosesOnExit that closes the database on a normal return only.
ClosesOnExit_ReturnOnly(threw) == ~threw

\* try { ... } finally { db.close() }: the handle is closed however the body
\* is left.
ClosesOnExit(threw) == TRUE

\* The end of the try block, by return or by throw, after the operations t.
Exit(threw, t) ==
  /\ trace' = IF ClosesOnExit(threw) THEN Append(t, "close") ELSE t
  /\ outcome' = IF threw THEN "threw" ELSE "returned"
  /\ pc' = IF threw THEN "failed" ELSE "done"

\* A check at the head of importFromGOGGalaxy fails: it throws.
RejectRun ==
  /\ pc = "idle"
  /\ runNo < Len(env.runs)
  /\ ~SetupValid(env.setup)
  /\ pc' = "rejected"
  /\ outcome' = "threw"
  /\ UNCHANGED <<env, cli, config, serverGames, mapFile, runNo, calls, searchIn, searchOut,
                 trace, tagsData, collections>>
  /\ UNCHANGED runVars

\* Validation passed; the import map is loaded and the database opened.
StartRun ==
  /\ pc \in {"idle", "done", "interrupted"}
  /\ runNo < Len(env.runs)
  /\ SetupValid(env.setup)
  /\ trace' = <<"readMap", "open">>
  /\ outcome' = "none"
  /\ tagsData' = <<>>
  /\ collections' = NoCollections
  /\ LET loaded == loadReleaseKeyMap(mapFile, env.runs[runNo + 1].readOk)
     IN  /\ importMap' = loaded.importMap
         /\ loadedMap' = loaded.importMap
  /\ fileAtStart' = mapFile
  /\ runNo' = runNo + 1
  /\ gamesByReleaseKey' = <<>>
  /\ currentIndex' = 0
  /\ existingGameIds' = {}
  /\ gameReleaseKeyMap' = <<>>
  /\ successCount' = 0
  /\ skipCount' = 0
  /\ importMapDirty' = FALSE
  /\ skipped' = <<>>
  /\ pc' = "query"
  /\ UNCHANGED <<env, cli, config, serverGames, mapFile, calls, searchIn, searchOut>>

\* The games query, the grouping of its rows and the preload of the
\* persisted ids into the session map.
QueryGames ==
  /\ pc = "query"
  /\ ~env.setup.collectionsOnly
  /\ env.setup.gamesQueryOk
  /\ gamesByReleaseKey' = GroupRows(env.rows)
  /\ gameReleaseKeyMap' = buildReleaseKeyIdMap(importMap)
  /\ pc' = "prefetch"
  /\ trace' = Append(trace, "query")
  /\ UNCHANGED <<outcome, tagsData, collections>>
  /\ UNCHANGED <<env, cli, config, serverGames, mapFile, runNo, importMap, loadedMap,
                 fileAtStart, currentIndex, existingGameIds, successCount,
                 skipCount, importMapDirty, calls, skipped, searchIn, searchOut>>

\* getExistingGameIds, with its failure caught (empty set).
FetchExistingGameIds ==
  /\ pc = "prefetch"
  /\ existingGameIds' = IF Config.idsOk THEN serverGames ELSE {}
  /\ calls' = Append(calls,
       LogEntry(runNo, NullKey,
                Call("getExistingGameIds", NULL, NULLS, NULLS, NULL, NULL,
                     UploadStatus(~Config.idsOk))))
  /\ pc' = "loop"
  /\ UNCHANGED collVars
  /\ UNCHANGED <<env, cli, config, serverGames, mapFile, runNo, importMap, loadedMap,
                 fileAtStart, gamesByReleaseKey, currentIndex,
                 gameReleaseKeyMap, successCount, skipCount, importMapDirty,
                 skipped, searchIn, searchOut>>

Remote ==
  [catalog |-> env.catalog, details |-> env.details,
   createErr |-> env.createErr, serverGames |-> serverGames,
   execFiles |-> env.execFiles, imageFiles |-> env.imageFiles,
   uploadErr |-> env.uploadErr]

\* Variant of UpdatedEntry that replaces the entry by the result.
UpdatedEntry_Overwrite(hasPrevious, previousEntry, result) ==
  Entry(result.igdbId, OrNullS(result.title), OrNullS(result.releaseDate),
        result.stars)

\* The map entry written after a successful importGame.
UpdatedEntry(hasPrevious, previousEntry, result) ==
  LET previousObject == IF hasPrevious THEN previousEntry
                        ELSE Entry(NULL, NULLS, NULLS, NULL)
      hasReleaseDate == previousObject.releaseDate # NULLS
      hasStars == previousObject.stars # NULL
  IN  Entry(result.igdbId,
            IF TruthyS(previousObject.title) THEN previousObject.title
            ELSE OrNullS(result.title),
            IF hasReleaseDate THEN previousObject.releaseDate
            ELSE OrNullS(result.releaseDate),
            IF hasStars THEN previousObject.stars ELSE result.stars)

\* Variant of shouldForceUpload that looks at the flag only.
shouldForceUpload_FlagOnly(up, hasEntry) == up

\* upload && !!existingIgdbId
shouldForceUpload(up, hasEntry) == up /\ hasEntry

\* Variant of AlreadyImported with the force test inverted.
AlreadyImported_Inverted(hasEntry, force) == hasEntry /\ force

\* existingIgdbId && !shouldForceUpload: the release is skipped unprocessed.
AlreadyImported(hasEntry, force) == hasEntry /\ ~force

\* Variant of ForcedOptions that passes the id only, so that the details are
\* fetched and the game is created again.
ForcedOptions_IdOnly(existingIgdbId) ==
  [igdbId |-> existingIgdbId, skipSearch |-> FALSE, skipCreate |-> FALSE,
   skipIgdbFetch |-> FALSE, existingGameIds |-> {}]

\* Options handed to importGame for a forced re-upload and for a fresh import.
ForcedOptions(existingIgdbId) ==
  [igdbId |-> existingIgdbId, skipSearch |-> TRUE, skipCreate |-> TRUE,
   skipIgdbFetch |-> TRUE, existingGameIds |-> {}]

FreshOptions(ids) ==
  [igdbId |-> NULL, skipSearch |-> FALSE, skipCreate |-> FALSE,
   skipIgdbFetch |-> FALSE, existingGameIds |-> ids]

\* Variant of MapFileAfterRelease that writes the map after every import.
MapFileAfterRelease_WriteThrough(file, newImportMap) ==
  saveReleaseKeyMap(newImportMap)

\* The import-map file after one iteration of the loop: the iteration only
\* marks the in-memory map dirty, it does not write.
MapFileAfterRelease(file, newImportMap) == file

\* Variant of KnownAfterImport that leaves the set as it was fetched.
KnownAfterImport_AsFetched(ids, result) == ids

\* existingGameIds.add(result.igdbId ?? result.gameId)
KnownAfterImport(ids, result) ==
  ids \cup {IF result.igdbId # NULL THEN result.igdbId ELSE result.gameId}

\* Variant of CountsAsImported that counts every call that did not throw.
CountsAsImported_Returned(r) == r.outcome # "threw"

\* if (result && result.gameId): importGame returned a result, not null.
CountsAsImported(r) == r.outcome = "result" /\ Truthy(r.result.gameId)

\* One iteration of the game loop.
ProcessRelease ==
  /\ pc = "loop"
  /\ currentIndex < Len(gamesByReleaseKey)
  /\ LET gameData == gamesByReleaseKey[currentIndex + 1]
         releaseKey == gameData.releaseKey
         hasEntry == releaseKey \in DOMAIN importMap
         existingIgdbId == IF hasEntry THEN importMap[releaseKey].igdbId ELSE NULL
         force == shouldForceUpload(Config.upload, hasEntry)
     IN  /\ currentIndex' = currentIndex + 1
         /\ IF AlreadyImported(hasEntry, force)
            THEN /\ skipCount' = skipCount + 1
                 /\ skipped' = Append(skipped, releaseKey)
                 /\ UNCHANGED <<serverGames, mapFile, importMap,
                                existingGameIds, gameReleaseKeyMap,
                                successCount, importMapDirty, calls>>
            ELSE LET options == IF force THEN ForcedOptions(existingIgdbId)
                                ELSE FreshOptions(existingGameIds)
                     r == importGame(gameData.titles, releaseKey,
                                     gameData.executables, gameData.myRating,
                                     gameData.releaseYear,
                                     OrNull(gameData.releaseDate), options,
                                     Remote)
                 IN  /\ calls' = calls \o LogAll(runNo, releaseKey, r.calls)
                     /\ serverGames' = serverGames \cup r.created
                     /\ IF CountsAsImported(r)
                        THEN /\ successCount' = successCount + 1
                             /\ existingGameIds' =
                                  KnownAfterImport(existingGameIds, r.result)
                             /\ gameReleaseKeyMap' =
                                  MapSet(gameReleaseKeyMap, releaseKey,
                                         r.result.gameId)
                             /\ LET newImportMap ==
                                      MapSet(importMap, releaseKey,
                                        UpdatedEntry(hasEntry,
                                          IF hasEntry THEN importMap[releaseKey]
                                          ELSE Entry(NULL, NULLS, NULLS, NULL),
                                          r.result))
                                IN  /\ importMap' = newImportMap
                                    /\ mapFile' =
                                         MapFileAfterRelease(mapFile, newImportMap)
                             /\ importMapDirty' = TRUE
                             /\ UNCHANGED <<skipCount, skipped>>
                        ELSE /\ skipCount' = skipCount + 1
                             /\ skipped' = Append(skipped, releaseKey)
                             /\ UNCHANGED <<mapFile, importMap,
                                            existingGameIds, gameReleaseKeyMap,
                                            successCount, importMapDirty>>
  /\ UNCHANGED <<env, cli, config, pc, runNo, loadedMap, fileAtStart, gamesByReleaseKey,
                 searchIn, searchOut>>
  /\ UNCHANGED collVars

\* Variant of SkipsCollections that imports the collections in every mode.
SkipsCollections_Never(setup) == FALSE

\* if (!gamesOnly) { tags query, importCollections } else skip.
SkipsCollections(setup) == setup.gamesOnly

\* Variant of FlushesMap that writes the map whether or not it changed.
FlushesMap_Always(dirty) == TRUE

\* if (importMapDirty): saveReleaseKeyMap is called after the loop only when
\* some release was recorded.
FlushesMap(dirty) == dirty

\* After the last release: the map is flushed if dirty (a failed write is
\* only warned about) and the summary is printed; a games-only run ends here
\* and the database is closed.
FinishGames ==
  /\ pc = "loop"
  /\ currentIndex = Len(gamesByReleaseKey)
  /\ mapFile' = IF FlushesMap(importMapDirty) /\ Config.writeOk
                THEN saveReleaseKeyMap(importMap) ELSE mapFile
  /\ LET t == IF FlushesMap(importMapDirty)
              THEN Append(trace, IF Config.writeOk THEN "writeMap"
                                 ELSE "writeMapFailed")
              ELSE trace
     IN  IF SkipsCollections(env.setup)
         THEN Exit(FALSE, t)
         ELSE pc' = "tags" /\ trace' = t /\ UNCHANGED outcome
  /\ UNCHANGED <<env, cli, config, serverGames, runNo, calls, searchIn, searchOut,
                 tagsData, collections>>
  /\ UNCHANGED runVars

\* The games query throws: the run ends through the finally block.
QueryGamesFails ==
  /\ pc = "query"
  /\ ~env.setup.gamesQueryOk
  /\ Exit(TRUE, Append(trace, "query"))
  /\ UNCHANGED <<env, cli, config, serverGames, mapFile, runNo, calls, searchIn, searchOut,
                 tagsData, collections>>
  /\ UNCHANGED runVars

\* The query of a collections-only run (no rating column) and the grouping
\* of its rows.
QueryGamesForCollections ==
  /\ pc = "query"
  /\ env.setup.collectionsOnly
  /\ env.setup.gamesQueryOk
  /\ gamesByReleaseKey' =
       GroupRows([i \in 1..Len(env.rows) |->
                    [env.rows[i] EXCEPT !.myRating = NULL]])
  /\ trace' = Append(trace, "query")
  /\ pc' = "tags"
  /\ UNCHANGED <<env, cli, config, serverGames, mapFile, runNo, importMap, loadedMap,
                 fileAtStart, currentIndex, existingGameIds, gameReleaseKeyMap,
                 successCount, skipCount, importMapDirty, calls, skipped,
                 searchIn, searchOut, outcome, tagsData, collections>>

\* Whether importCollections is called once the tags are read.
CallsImportCollections(rows) ==
  /\ rows # <<>>
  /\ IF env.setup.collectionsOnly THEN gamesByReleaseKey # <<>>
     ELSE DOMAIN gameReleaseKeyMap # {} \/ gamesByReleaseKey # <<>>

\* The tags query; with nothing to import the run ends here.
QueryTags ==
  /\ pc = "tags"
  /\ env.setup.tagsQueryOk
  /\ tagsData' = env.tags
  /\ IF CallsImportCollections(env.tags)
     THEN /\ pc' = "collections"
          /\ trace' = Append(trace, "query")
          /\ UNCHANGED outcome
     ELSE Exit(FALSE, Append(trace, "query"))
  /\ UNCHANGED <<env, cli, config, serverGames, mapFile, runNo, calls, searchIn, searchOut,
                 collections>>
  /\ UNCHANGED runVars

\* The tags query throws.
QueryTagsFails ==
  /\ pc = "tags"
  /\ ~env.setup.tagsQueryOk
  /\ Exit(TRUE, Append(trace, "query"))
  /\ UNCHANGED <<env, cli, config, serverGames, mapFile, runNo, calls, searchIn, searchOut,
                 tagsData, collections>>
  /\ UNCHANGED runVars

CollectionRemote ==
  [catalog |-> env.catalog, listOk |-> env.listOk, existing |-> env.existing,
   createStatus |-> env.createStatus, updateErr |-> env.updateErr]

CollectionFs ==
  [gamesDir |-> env.gamesDir, dirs |-> env.dirs, readdirOk |-> env.readdirOk]

\* The two maps given to importCollections: the session maps, which a
\* collections-only run builds from the persisted map.
SessionMap ==
  IF env.setup.collectionsOnly THEN buildReleaseKeyIdMap(importMap)
  ELSE gameReleaseKeyMap

\* importCollections, then the end of the run.
ImportCollections ==
  /\ pc = "collections"
  /\ LET r == importCollections(SessionMap, SessionMap, tagsData,
                                gamesByReleaseKey, CollectionRemote,
                                CollectionFs)
     IN  /\ collections' = r
         /\ Exit(r.threw, trace)
  /\ UNCHANGED <<env, cli, config, serverGames, mapFile, runNo, calls, searchIn, searchOut,
                 tagsData>>
  /\ UNCHANGED runVars

\* The process is stopped between two releases.
Interrupt ==
  /\ pc = "loop"
  /\ currentIndex < Len(gamesByReleaseKey)
  /\ pc' = "interrupted"
  /\ UNCHANGED collVars
  /\ UNCHANGED <<env, cli, config, serverGames, mapFile, runNo, calls, searchIn, searchOut>>
  /\ UNCHANGED runVars

\* A stand-alone reducing-title search.
RunSearch ==
  /\ pc = "search"
  /\ searchOut' = searchGameWithReducingTitle(searchIn.title, searchIn.catalog)
  /\ pc' = "searched"
  /\ UNCHANGED collVars
  /\ UNCHANGED <<env, cli, config, serverGames, mapFile, runNo, calls, searchIn>>
  /\ UNCHANGED runVars

\* main of cli.js, up to the exit or the call of the handler.
Main ==
  /\ pc = "cli"
  /\ config' = main(cli.args, dotenvConfig(cli.shellEnv, cli.dotenvFile),
                    cli.tokenFromFile)
  /\ pc' = "configured"
  /\ UNCHANGED collVars
  /\ UNCHANGED <<env, cli, serverGames, mapFile, runNo, calls, searchIn,
                 searchOut>>
  /\ UNCHANGED runVars

(***************************************************************************)
(* Inputs.                                                                 *)
(***************************************************************************)
SeqsUpTo(S, n) == UNION {[1..m -> S] : m \in 0..n}

Row(releaseKey, title, executablePath, label, myRating, releaseDate) ==
  [releaseKey |-> releaseKey, title |-> title,
   executablePath |-> executablePath, label |-> label, myRating |-> myRating,
   releaseDate |-> releaseDate]

TA  == <<"a">>
TAB == <<"a", " ", "b">>
TB  == <<"b">>
P1 == <<"p">>
P2 == <<"q">>
LSh == <<"r", ".", "s", "h">>
LM == <<"m">>

G1 == [id |-> 1, name |-> <<"X">>]
G2 == [id |-> 2, name |-> <<"Y">>]
Ids == {1, 2}

FullDate == 1700000000   \* a Unix-seconds timestamp (2023-11-14)
ShortDate == 1999        \* a numeric date of four digits
IgdbDate == 946684800    \* 2000-01-01

\* Rows of the runs: two releases, each with two titles; the first has two
\* executables, the second a zero rating and a short date.
RunRowPool ==
  {Row("rk1", TAB, P1, LSh, 4, FullDate),
   Row("rk1", TB, P2, NULLS, 4, FullDate),
   Row("rk2", TAB, P1, LSh, 0, ShortDate),
   Row("rk2", TA, NULLS, NULLS, 0, ShortDate)}

\* What the games query guarantees of its rows: ORDER BY releaseDate, one row
\* per (releaseKey, title, executablePath, label), and the rating and the date
\* of a row are those of its release.
QueryRows(rows) ==
  /\ \A i, j \in 1..Len(rows) :
       /\ i < j => rows[i].releaseDate <= rows[j].releaseDate
       /\ i # j => rows[i] # rows[j]
       /\ rows[i].releaseKey = rows[j].releaseKey =>
            /\ rows[i].myRating = rows[j].myRating
            /\ rows[i].releaseDate = rows[j].releaseDate

\* The results of the games query of at most n rows drawn from a pool.
QueryResults(pool, n) == {rows \in SeqsUpTo(pool, n) : QueryRows(rows)}

Found(games) == [ok |-> TRUE, games |-> games]
Rejected == [ok |-> FALSE, games |-> <<>>]

\* Search behaviour of the remote catalog: nothing found, the full title
\* found, only the reduced title found, only the second title found, two
\* titles found with different games, and a rejected request.
CatalogPool ==
  {<<>>,
   [q \in {TAB} |-> Found(<<G1, G2>>)],
   [q \in {TA} |-> Found(<<G2>>)],
   [q \in {TB} |-> Found(<<G1>>)],
   [q \in {TA, TB} |-> IF q = TA THEN Found(<<G2>>) ELSE Found(<<G1>>)],
   [q \in {TAB} |-> Rejected]}

Details(name, releaseDateFull, releaseDate) ==
  [ok |-> TRUE, name |-> name, releaseDateFull |-> releaseDateFull,
   releaseDate |-> releaseDate]

\* Remote catalog: detail records, ids whose creation fails, ids present.
ServerPool ==
  {[details |-> [i \in Ids |-> Details(<<"Z">>, IgdbDate, 2000)],
    createErr |-> {}, serverGames |-> {}],
   [details |-> [i \in Ids |-> NoDetails],
    createErr |-> {1}, serverGames |-> {}],
   [details |-> [i \in Ids |-> Details(NULLS, NULL, 2000)],
    createErr |-> {}, serverGames |-> {1}],
   [details |-> [i \in Ids |-> Details(NULLS, NULL, NULL)],
    createErr |-> {}, serverGames |-> {1, 2}],
   [details |-> [i \in Ids |-> NoDetails],
    createErr |-> {2}, serverGames |-> {1}]}

\* Local files: launcher paths, Galaxy images, and the uploads that fail.
FsPool ==
  {[execFiles |-> {P1},
    imageFiles |-> {<<"rk1", "_cover.png">>, <<"rk1", ".jpg">>,
                    <<"rk1", "_hero.jpg">>, <<"rk2", ".png">>},
    uploadErr |-> [execs |-> {}, images |-> {}]],
   [execFiles |-> {P1, P2},
    imageFiles |-> {<<"rk1", "_background.jpg">>, <<"rk2", "_cover.jpg">>,
                    <<"rk2", "_hero.png">>},
    uploadErr |-> [execs |-> {P1}, images |-> {"uploadCover"}]],
   [execFiles |-> {}, imageFiles |-> {},
    uploadErr |-> [execs |-> {}, images |-> {}]]}

File(data) == [exists |-> TRUE, data |-> data]

\* Import-map files: none, an older file with a bare number, a file with a
\* complete and a partial entry.
MapFilePool ==
  {NoFile,
   File([k \in {"rk1"} |-> FileNumber(1)]),
   File([k \in {"rk1", "rk2"} |->
           IF k = "rk1"
           THEN FileObject(Entry(2, <<"O">>, <<"ymd", 2001, 2, 3>>, 6))
           ELSE FileObject(Entry(1, <<"O">>, NULLS, NULL))]),
   File([k \in {"rk3"} |-> FileObject(Entry(2, NULLS, NULLS, NULL))])}

\* Largest number of query rows of a run.
MaxRunRows == 2

\* One run: its mode and which of its I/O operations succeed (the read of the
\* import map, the fetch of the existing ids, the write of the import map).
Run(up, readOk, idsOk, writeOk) ==
  [upload |-> up, readOk |-> readOk, idsOk |-> idsOk, writeOk |-> writeOk]

\* A normal and a forced run without failures, and a normal or forced run with
\* one failure.
RunPool ==
  {Run(FALSE, TRUE, TRUE, TRUE), Run(TRUE, TRUE, TRUE, TRUE),
   Run(FALSE, FALSE, TRUE, TRUE), Run(TRUE, FALSE, TRUE, TRUE),
   Run(FALSE, TRUE, FALSE, TRUE), Run(FALSE, TRUE, TRUE, FALSE)}

\* The configuration of a run beside its upload flag, and whether its two
\* queries succeed.
Setup(mode, dbFile, metadataDir, serverUrl, apiToken, twitchClientId, twitchClientSecret, gamesQueryOk, tagsQueryOk) ==
  [gamesOnly |-> mode.gamesOnly, collectionsOnly |-> mode.collectionsOnly,
   dbFile |-> dbFile, metadataDir |-> metadataDir,
   serverUrl |-> serverUrl, apiToken |-> apiToken,
   twitchClientId |-> twitchClientId,
   twitchClientSecret |-> twitchClientSecret,
   gamesQueryOk |-> gamesQueryOk, tagsQueryOk |-> tagsQueryOk]

\* The two mode flags of the configuration; both are false by default.
Mode(gamesOnly, collectionsOnly) ==
  [gamesOnly |-> gamesOnly, collectionsOnly |-> collectionsOnly]

GamesOnly == Mode(TRUE, FALSE)
CollectionsOnly == Mode(FALSE, TRUE)
AllPhases == Mode(FALSE, FALSE)
BothFlags == Mode(TRUE, TRUE)

\* A games-only run with every path and credential in place.
GamesOnlySetup == Setup(GamesOnly, TRUE, TRUE, TRUE, TRUE, TRUE, TRUE, TRUE, TRUE)

\* What importCollections meets: the tag rows, the remote collections and
\* content/games.
Collections(tags, listOk, existing, createStatus, gamesDir, dirs, readdirOk) ==
  [tags |-> tags, listOk |-> listOk, existing |-> existing,
   createStatus |-> createStatus, updateErr |-> {}, gamesDir |-> gamesDir,
   dirs |-> dirs, readdirOk |-> readdirOk]

\* The same, with the tags whose updateCollectionGamesViaAPI call fails.
FailingUpdates(coll, tags) == [coll EXCEPT !.updateErr = tags]

NoTags == Collections(<<>>, TRUE, <<>>, <<>>, TRUE, <<>>, TRUE)

FullEnv(runs, rows, catalog, server, fs, setup, coll) ==
  [runs |-> runs, rows |-> rows, catalog |-> catalog,
   details |-> server.details,
   createErr |-> server.createErr, execFiles |-> fs.execFiles,
   imageFiles |-> fs.imageFiles, uploadErr |-> fs.uploadErr,
   setup |-> setup, tags |-> coll.tags, listOk |-> coll.listOk,
   existing |-> coll.existing, createStatus |-> coll.createStatus,
   updateErr |-> coll.updateErr,
   gamesDir |-> coll.gamesDir, dirs |-> coll.dirs,
   readdirOk |-> coll.readdirOk]

\* The environment of a games-only run: the collections are not imported and
\* the tags are not read.
Env(runs, rows, catalog, server, fs) ==
  FullEnv(runs, rows, catalog, server, fs, GamesOnlySetup, NoTags)

NoSearch == [title |-> <<>>, catalog |-> <<>>]

\* What the command line of a run holds when the run is not started from it.
NoCli == [args |-> <<>>, shellEnv |-> <<>>, dotenvFile |-> <<>>,
          tokenFromFile |-> NULLS]

\* The state before a first run, but for the environment and the command
\* line.
StateBeforeRun(files, searches, start) ==
  /\ mapFile \in files
  /\ pc = start
  /\ runNo = 0
  /\ importMap = <<>>
  /\ loadedMap = <<>>
  /\ fileAtStart = NoFile
  /\ gamesByReleaseKey = <<>>
  /\ currentIndex = 0
  /\ existingGameIds = {}
  /\ gameReleaseKeyMap = <<>>
  /\ successCount = 0
  /\ skipCount = 0
  /\ importMapDirty = FALSE
  /\ calls = <<>>
  /\ skipped = <<>>
  /\ searchIn \in searches
  /\ searchOut = NotFound(<<>>)
  /\ trace = <<>>
  /\ outcome = "none"
  /\ tagsData = <<>>
  /\ collections = NoCollections
  /\ config = NoConfig

StartState(files, searches, start) ==
  /\ StateBeforeRun(files, searches, start)
  /\ cli = NoCli

\* The state before a first run, for inputs drawn from the given sets.
InitWith(runSeqs, rowSeqs, catalogs, servers, fss, files, searches, start) ==
  /\ \E runs \in runSeqs, rows \in rowSeqs, catalog \in catalogs,
        server \in servers, fs \in fss :
       /\ env = Env(runs, rows, catalog, server, fs)
       /\ serverGames = server.serverGames
  /\ StartState(files, searches, start)

Init ==
  InitWith([1..1 -> RunPool], QueryResults(RunRowPool, MaxRunRows), CatalogPool,
           ServerPool, FsPool, MapFilePool, {NoSearch}, "idle")

Next ==
  \/ StartRun
  \/ QueryGames
  \/ FetchExistingGameIds
  \/ ProcessRelease
  \/ FinishGames
  \/ Interrupt

Spec == Init /\ [][Next]_vars

TypeOK ==
  /\ pc \in {"idle", "query", "prefetch", "loop", "done", "interrupted",
             "search", "searched", "rejected", "failed", "tags",
             "collections", "cli", "configured"}
  /\ outcome \in {"none", "returned", "threw"}
  /\ successCount + skipCount = currentIndex
  /\ currentIndex <= Len(gamesByReleaseKey)

(***************************************************************************)
(* Row grouping on its own: any short sequence of rows, then QueryGames.   *)
(***************************************************************************)
\* Longest row sequence given to the grouping.
MaxRows == 3

PX == <<"x">>
PXBar == <<"x", "|">>
LBarY == <<"|", "y">>
LY == <<"y">>

\* Rows of three keys (one null) with no executable, an executable without
\* label, with an empty label, with two different labels; rows that repeat a
\* (path, label) pair under another title; and two rows whose path and label
\* differ but concatenate to the same key.
GroupRowPool ==
  {Row(k, TA, e[1], e[2], NULL, NULL) :
     k \in {NullKey, "rk1", "rk2"},
     e \in {<<NULLS, NULLS>>, <<P1, NULLS>>, <<P1, LSh>>, <<P1, LM>>}}
  \cup {Row("rk1", TB, P1, LSh, NULL, NULL),
        Row("rk1", TAB, P1, LSh, NULL, NULL),
        Row("rk1", TB, P1, <<>>, NULL, NULL),
        Row("rk1", TA, PX, LBarY, NULL, NULL),
        Row("rk1", TA, PXBar, LY, NULL, NULL)}

QuietRun == Run(FALSE, TRUE, TRUE, TRUE)
QuietServer == [details |-> <<>>, createErr |-> {}, serverGames |-> {}]
QuietFs ==
  [execFiles |-> {}, imageFiles |-> {},
   uploadErr |-> [execs |-> {}, images |-> {}]]

InitGroup ==
  InitWith({<<QuietRun>>}, QueryResults(GroupRowPool, MaxRows), {<<>>},
              {QuietServer}, {QuietFs}, {NoFile}, {NoSearch}, "query")

SpecGroup == InitGroup /\ [][QueryGames]_vars

\* The releaseKeys of the aggregates, in order.
AggregateKeys == [i \in 1..Len(gamesByReleaseKey) |-> gamesByReleaseKey[i].releaseKey]

NoDuplicates(seq) == \A i, j \in 1..Len(seq) : i # j => seq[i] # seq[j]

RowsOfKey(k) == {i \in 1..Len(env.rows) : env.rows[i].releaseKey = k}

\* C7: the grouping yields exactly one aggregate per distinct non-null
\* releaseKey of the rows (null keys are dropped); within an aggregate no
\* (path, label) pair occurs twice; and two rows of one release with the same
\* path and different labels both leave their executable in the aggregate.
C7_Grouping ==
  pc = "prefetch" =>
    /\ SeqToSet(AggregateKeys) =
         {env.rows[i].releaseKey : i \in 1..Len(env.rows)} \ {NullKey}
    /\ NoDuplicates(AggregateKeys)
    /\ \A a \in 1..Len(gamesByReleaseKey) :
         LET agg == gamesByReleaseKey[a]
         IN  /\ NoDuplicates(agg.executables)
             /\ \A i, j \in RowsOfKey(agg.releaseKey) :
                  LET ri == env.rows[i]
                      rj == env.rows[j]
                  IN  (/\ TruthyS(ri.executablePath)
                       /\ ri.executablePath = rj.executablePath
                       /\ OrNullS(ri.label) # OrNullS(rj.label))
                      => \E x, y \in 1..Len(agg.executables) :
                           /\ agg.executables[x] =
                                [path |-> ri.executablePath, label |-> OrNullS(ri.label)]
                           /\ agg.executables[y] =
                                [path |-> rj.executablePath, label |-> OrNullS(rj.label)]

\* C7 witness: three rows of one release (three titles), the first two with
\* the same path and label, the third with the same path and another label,
\* grouped into a single aggregate with two executables.
C7_Witness ==
  /\ pc = "prefetch"
  /\ Len(env.rows) = 3
  /\ \A i \in 1..3 : env.rows[i].releaseKey = "rk1" /\ env.rows[i].executablePath = P1
  /\ env.rows[1].label = LSh /\ env.rows[2].label = LSh /\ env.rows[3].label = LM
  /\ env.rows[1].title # env.rows[2].title
  /\ Len(gamesByReleaseKey) = 1
  /\ Len(gamesByReleaseKey[1].executables) = 2

(***************************************************************************)
(* Reducing-title search on its own: any short title against a catalog     *)
(* that knows some of the queries.                                         *)
(***************************************************************************)
\* Longest title given to the stand-alone search.
MaxTitleLen == 5

TABA == <<"a", " ", "b", " ", "a">>

\* The queries a catalog of the stand-alone search can know.
SearchQueryPool == {TA, TAB, TABA, TB}

\* Every query of the pool is unknown, found or rejected.
SearchCatalogs ==
  UNION {[H -> {Found(<<G1>>), Found(<<G2, G1>>), Rejected}] :
           H \in SUBSET SearchQueryPool}

SearchInputs ==
  {[title |-> t, catalog |-> c] :
     t \in SeqsUpTo({"a", "b", " "}, MaxTitleLen), c \in SearchCatalogs}

InitSearch ==
  InitWith({<<QuietRun>>}, {<<>>}, {<<>>}, {QuietServer}, {QuietFs}, {NoFile},
           SearchInputs, "search")

SpecSearch == InitSearch /\ [][RunSearch]_vars

\* The words of the title given to the search, and the games the catalog
\* answers to the i-th query sent.
TitleWords == SplitWS(Trim(searchIn.title))
Answer(i) == searchGameOnServer(searchIn.catalog, searchOut.queries[i]).games

\* C8: for a title of n >= 1 words whose searches all resolve, the queries
\* sent are the n-word, (n-1)-word, ... prefixes of the title in that order
\* (the first is the trimmed title itself, the later ones the words joined by
\* one blank); every query before the last had an empty answer; if the last
\* query has an answer, that answer and that query are returned; otherwise
\* exactly n queries were sent, the last is the first word alone, and the
\* result is empty with no used title.
C8_ReducingSearch ==
  (pc = "searched" /\ Trim(searchIn.title) # <<>> /\ ~searchOut.threw) =>
    LET n == Len(TitleWords)
        queries == searchOut.queries
        sent == Len(queries)
    IN  /\ sent \in 1..n
        /\ queries[1] = Trim(searchIn.title)
        /\ \A i \in 1..sent :
             /\ SplitWS(queries[i]) = SubSeq(TitleWords, 1, n - i + 1)
             /\ i > 1 => queries[i] = JoinSp(SubSeq(TitleWords, 1, n - i + 1))
             /\ i < sent => Answer(i) = <<>>
        /\ IF Answer(sent) # <<>>
           THEN /\ searchOut.igdbGames = Answer(sent)
                /\ searchOut.usedTitle = queries[sent]
           ELSE /\ sent = n
                /\ queries[sent] = TitleWords[1]
                /\ searchOut.igdbGames = <<>>
                /\ searchOut.usedTitle = NULLS

\* C8 witness (match after reduction): a three-word title with padding whose
\* full form and two-word prefix are unknown and whose first word is found.
C8_Witness ==
  /\ pc = "searched"
  /\ searchIn.title = <<"a", " ", "b", " ", "b">>
  /\ searchOut.queries = <<<<"a", " ", "b", " ", "b">>, TAB, TA>>
  /\ searchOut.usedTitle = TA
  /\ searchOut.igdbGames = <<G2, G1>>

(***************************************************************************)
(* Properties of a run.                                                    *)
(***************************************************************************)
\* releaseKeys of the releases the loop has gone through, and of those among
\* them that were imported (not counted as skipped).
Processed == SubSeq(AggregateKeys, 1, currentIndex)
ImportedKeys == SeqToSet(Processed) \ SeqToSet(skipped)

\* The remote calls a run issued for a release, in order.
CallsOf(run, k) == SelectSeq(calls, LAMBDA c : c.run = run /\ c.rk = k)

OpsOf(cs) == {cs[i].op : i \in 1..Len(cs)}
CountOp(cs, op) == Cardinality({i \in 1..Len(cs) : cs[i].op = op})

\* The import map a reader of the file would get.
ReadBack == loadReleaseKeyMap(mapFile, TRUE).importMap

\* C1: in a normal run, a release whose key is in the import map loaded at
\* start gets no remote call of any kind, is counted as skipped once the loop
\* has gone past it, and its map entry stays as loaded, in memory and in the
\* file once the run is done.
C1_NormalRunSkips ==
  (runNo > 0 /\ ~Config.upload) =>
    \A k \in DOMAIN loadedMap :
      /\ CallsOf(runNo, k) = <<>>
      /\ k \in DOMAIN importMap /\ importMap[k] = loadedMap[k]
      /\ k \in SeqToSet(Processed) => k \in SeqToSet(skipped)
      /\ pc = "done" => (k \in DOMAIN ReadBack /\ ReadBack[k] = loadedMap[k])

\* C1 witness: a finished normal run that skipped one mapped release and
\* imported another one, the map being written.
C1_Witness ==
  /\ pc = "done" /\ runNo = 1 /\ ~Config.upload
  /\ \E k \in DOMAIN loadedMap : k \in SeqToSet(Processed)
  /\ ImportedKeys # {}
  /\ mapFile # fileAtStart
  /\ \E i \in 1..Len(calls) : calls[i].op = "createGame"

\* C3: in a forced run, a release with an entry in the loaded map is
\* re-uploaded under the entry's id: no search, no detail fetch, no
\* createGame; one uploadExecutable per executable whose path exists, in
\* order; one cover upload iff a cover file exists and one background upload
\* iff a background file exists.
C3_ForcedReupload ==
  (runNo > 0 /\ Config.upload) =>
    \A i \in 1..currentIndex :
      LET agg == gamesByReleaseKey[i]
          k == agg.releaseKey
          cs == CallsOf(runNo, k)
          uploads == SelectSeq(cs, LAMBDA c : c.op = "uploadExecutable")
          present == SelectSeq(agg.executables,
                               LAMBDA e : e.path \in env.execFiles)
          HasImage(suffixes) ==
            \E j \in 1..Len(suffixes) : <<k, suffixes[j]>> \in env.imageFiles
      IN  k \in DOMAIN loadedMap =>
            /\ OpsOf(cs) \cap {"search", "getGameDetails", "createGame"} = {}
            /\ \A j \in 1..Len(cs) : cs[j].gameId = loadedMap[k].igdbId
            /\ Len(uploads) = Len(present)
            /\ \A j \in 1..Len(uploads) : uploads[j].text = present[j].path
            /\ CountOp(cs, "uploadCover") =
                 IF HasImage(CoverSuffixes) THEN 1 ELSE 0
            /\ CountOp(cs, "uploadBackground") =
                 IF HasImage(BackgroundSuffixes) THEN 1 ELSE 0
            /\ k \notin SeqToSet(skipped)

\* C3 witness: a forced run re-uploaded a mapped release: an executable, a
\* cover and a background, and nothing else.
C3_Witness ==
  /\ runNo = 1 /\ Config.upload /\ pc = "done"
  /\ \E k \in DOMAIN loadedMap :
       /\ k \in SeqToSet(Processed)
       /\ OpsOf(CallsOf(runNo, k)) =
            {"uploadExecutable", "uploadCover", "uploadBackground"}

\* The queries of the reducing search of one title, computed from the words.
Reduction(title) ==
  LET t == Trim(title)
      words == SplitWS(t)
      n == Len(words)
  IN  IF t = <<>> THEN <<>>
      ELSE [i \in 1..n |-> IF i = 1 THEN t ELSE JoinSp(SubSeq(words, 1, n - i + 1))]

\* The complete reductions of the first m titles, one after the other.
RECURSIVE Reductions(_, _)
Reductions(titles, m) ==
  IF m = 0 THEN <<>> ELSE Reductions(titles, m - 1) \o Reduction(titles[m])

\* C9: the searches of a fresh import come before any other call of the
\* release and are the complete reductions of the titles 1..m-1, in aggregate
\* order, followed by the first j queries of title m; every search but the
\* last had an empty answer; if the last search has an answer, every later
\* call is for a game of that answer; if it has none, all titles were reduced
\* to the end, the release has no other call and no map entry and is counted
\* as skipped.
C9_TitleOrder ==
  runNo > 0 =>
    \A i \in 1..currentIndex :
      LET agg == gamesByReleaseKey[i]
          k == agg.releaseKey
          cs == CallsOf(runNo, k)
          searches == SelectSeq(cs, LAMBDA c : c.op = "search")
          queries == [x \in 1..Len(searches) |-> searches[x].text]
          sent == Len(queries)
          Resp(x) == searchGameOnServer(env.catalog, queries[x])
      IN  k \notin DOMAIN loadedMap =>
            /\ sent >= 1
            /\ SubSeq(cs, 1, sent) = searches
            /\ \A x \in 1..(sent - 1) : Resp(x).ok /\ Resp(x).games = <<>>
            /\ \E m \in 1..Len(agg.titles) :
                 \E j \in 1..Len(Reduction(agg.titles[m])) :
                   /\ queries = Reductions(agg.titles, m - 1)
                                \o SubSeq(Reduction(agg.titles[m]), 1, j)
                   /\ (Resp(sent).ok /\ Resp(sent).games = <<>>) =>
                        /\ m = Len(agg.titles)
                        /\ j = Len(Reduction(agg.titles[m]))
            /\ (Resp(sent).ok /\ Resp(sent).games # <<>>) =>
                 /\ Len(cs) > sent
                 /\ \A x \in (sent + 1)..Len(cs) :
                      \E g \in 1..Len(Resp(sent).games) :
                        cs[x].gameId = Resp(sent).games[g].id
            /\ (Resp(sent).ok /\ Resp(sent).games = <<>>) =>
                 /\ Len(cs) = sent
                 /\ k \notin DOMAIN importMap
                 /\ k \in SeqToSet(skipped)

\* C9 witness: a release of two titles of which neither is found at any
\* reduction level: three searches, nothing else, no entry, skipped.
C9_Witness ==
  /\ runNo = 1 /\ pc = "done"
  /\ Len(gamesByReleaseKey) = 1
  /\ gamesByReleaseKey[1].titles = <<TAB, TB>>
  /\ [x \in 1..Len(calls) |-> calls[x].op] =
       <<"getExistingGameIds", "search", "search", "search">>
  /\ [x \in 2..4 |-> calls[x].text] = [x \in 2..4 |-> <<TAB, TA, TB>>[x - 1]]
  /\ skipped = <<"rk1">>
  /\ "rk1" \notin DOMAIN importMap

Min(S) == CHOOSE x \in S : \A y \in S : x <= y

\* One iteration of the game loop on a fresh release whose search ended with
\* a non-empty candidate list: createGame and every later call are for the
\* first candidate whose id is not among the ids known to exist, or for the
\* first candidate when all are known; unless createGame fails the release is
\* imported under that id.
C10_Step ==
  (pc = "loop" /\ currentIndex' = currentIndex + 1) =>
    LET k == gamesByReleaseKey[currentIndex + 1].releaseKey
        new == SubSeq(calls', Len(calls) + 1, Len(calls'))
        searches == SelectSeq(new, LAMBDA c : c.op = "search")
        answer == IF searches = <<>> THEN Rejected
                  ELSE searchGameOnServer(env.catalog, Last(searches).text)
        candidates == answer.games
        notKnown == {x \in 1..Len(candidates) :
                       candidates[x].id \notin existingGameIds}
        expected == IF notKnown # {} THEN candidates[Min(notKnown)].id
                    ELSE candidates[1].id
    IN  (k \notin DOMAIN importMap /\ answer.ok /\ candidates # <<>>) =>
          /\ \E x \in 1..Len(new) :
               new[x].op = "createGame" /\ new[x].gameId = expected
          /\ \A x \in 1..Len(new) :
               new[x].op # "search" => new[x].gameId = expected
          /\ (\A x \in 1..Len(new) :
                new[x].op = "createGame" => new[x].status # "error") =>
               /\ successCount' = successCount + 1
               /\ k \in DOMAIN importMap'
               /\ importMap'[k].igdbId = expected

AggregateOf(k) == gamesByReleaseKey[IndexOfKey(gamesByReleaseKey, k)]

\* A release of a forced run that had an entry at start and has been
\* re-imported.
Reimported(k) ==
  /\ runNo > 0 /\ Config.upload
  /\ k \in DOMAIN loadedMap
  /\ k \in SeqToSet(Processed)

\* The entry keeps its id and every non-null field it had.
KeepsFields(k) ==
  /\ importMap[k].igdbId = loadedMap[k].igdbId
  /\ TruthyS(loadedMap[k].title) => importMap[k].title = loadedMap[k].title
  /\ loadedMap[k].releaseDate # NULLS =>
       importMap[k].releaseDate = loadedMap[k].releaseDate
  /\ loadedMap[k].stars # NULL => importMap[k].stars = loadedMap[k].stars

\* A missing star count is filled with twice the rating of the aggregate (a
\* zero rating is no rating).
FillsStars(k) ==
  loadedMap[k].stars = NULL =>
    importMap[k].stars = IF AggregateOf(k).myRating = NULL THEN NULL
                         ELSE 2 * AggregateOf(k).myRating

\* The YYYY-MM-DD form of a Unix-seconds date.
IsoDate(date) ==
  LET c == CivilFromDays(date \div SecondsPerDay)
  IN  <<"ymd", c.year, c.month, c.day>>

C5_KeysKept ==
  \A k \in DOMAIN fileAtStart.data :
    mapFile.exists /\ k \in DOMAIN mapFile.data

\* C6 as stated: when the run is interrupted, every release imported before
\* the interrupt has an entry in the file.
C6_AsStated ==
  pc = "interrupted" =>
    \A k \in ImportedKeys : mapFile.exists /\ k \in DOMAIN mapFile.data

\* C6 (amended): the file is not written while the loop runs; at an interrupt
\* between two releases it is exactly the file of the start of the run and
\* the releases imported so far are recorded in memory only; the file gets
\* them when the run ends after the last release and the write succeeds.
C6_FlushAtEnd ==
  /\ pc \in {"loop", "interrupted"} =>
       /\ mapFile = fileAtStart
       /\ \A k \in ImportedKeys : k \in DOMAIN importMap
  /\ (pc = "done" /\ Config.writeOk) =>
       \A k \in ImportedKeys : mapFile.exists /\ k \in DOMAIN mapFile.data

\* C6 witness: an interrupt after a release was imported; the file is the
\* file of the start and has no entry for that release.
C6_Witness ==
  /\ pc = "interrupted"
  /\ mapFile = fileAtStart
  /\ \E k \in ImportedKeys : k \in DOMAIN importMap /\ k \notin DOMAIN mapFile.data

(***************************************************************************)
(* Two normal runs, one after the other, on the same rows, the same remote *)
(* catalog and the same metadata root.                                     *)
(***************************************************************************)
\* Normal runs: without failure, with a failed write of the map, with a
\* failed read of the map, with a failed fetch of the existing ids.
TwiceRunPool ==
  {Run(FALSE, TRUE, TRUE, TRUE), Run(FALSE, TRUE, TRUE, FALSE),
   Run(FALSE, FALSE, TRUE, TRUE), Run(FALSE, TRUE, FALSE, TRUE)}

InitTwice ==
  InitWith([1..2 -> TwiceRunPool], QueryResults(RunRowPool, MaxRunRows),
           CatalogPool, ServerPool, {QuietFs}, MapFilePool, {NoSearch}, "idle")

NextTwice ==
  \/ StartRun
  \/ QueryGames
  \/ FetchExistingGameIds
  \/ ProcessRelease
  \/ FinishGames

SpecTwice == InitTwice /\ [][NextTwice]_vars

\* The createGame calls of a run.
CreatesOf(run) ==
  SelectSeq(calls, LAMBDA c : c.run = run /\ c.op = "createGame")

\* Neither run had a failure reading or writing the import map.
MapIoOk == \A r \in 1..2 : env.runs[r].readOk /\ env.runs[r].writeOk

CreateCallsOf(k) ==
  SelectSeq(CallsOf(runNo, k), LAMBDA c : c.op = "createGame")

\* The uploads a release is due: one uploadExecutable per executable whose
\* path exists, in list order, then one cover and one background upload if a
\* file of the kind exists; all of them issued whatever their outcomes.
UploadsAsDue(agg, cs) ==
  LET k == agg.releaseKey
      uploads == SelectSeq(cs, LAMBDA c : c.op = "uploadExecutable")
      present == SelectSeq(agg.executables, LAMBDA e : e.path \in env.execFiles)
      HasImage(suffixes) ==
        \E j \in 1..Len(suffixes) : <<k, suffixes[j]>> \in env.imageFiles
  IN  /\ Len(uploads) = Len(present)
      /\ \A j \in 1..Len(uploads) : uploads[j].text = present[j].path
      /\ CountOp(cs, "uploadCover") = IF HasImage(CoverSuffixes) THEN 1 ELSE 0
      /\ CountOp(cs, "uploadBackground") =
           IF HasImage(BackgroundSuffixes) THEN 1 ELSE 0

UploadOps == {"uploadExecutable", "uploadCover", "uploadBackground"}

\* C11: in a fresh import, a createGame answered with a conflict is followed
\* by the uploads the release is due and the release is recorded in the map
\* and not counted as skipped; a createGame that fails otherwise is the last
\* call of the release, which gets no upload and no map entry and is counted
\* as skipped; and the loop goes on: a finished run has processed every
\* release, each fresh one with at least one call.
C11_CreateFailure ==
  runNo > 0 =>
    /\ pc = "done" => currentIndex = Len(gamesByReleaseKey)
    /\ \A i \in 1..currentIndex :
         LET agg == gamesByReleaseKey[i]
             k == agg.releaseKey
             cs == CallsOf(runNo, k)
             creates == CreateCallsOf(k)
         IN  k \notin DOMAIN loadedMap =>
               /\ cs # <<>>
               /\ Len(creates) <= 1
               /\ (creates # <<>> /\ creates[1].status = "conflict") =>
                    /\ UploadsAsDue(agg, cs)
                    /\ k \in DOMAIN importMap
                    /\ importMap[k].igdbId = creates[1].gameId
                    /\ k \notin SeqToSet(skipped)
               /\ (creates # <<>> /\ creates[1].status = "error") =>
                    /\ Last(cs).op = "createGame"
                    /\ OpsOf(cs) \cap UploadOps = {}
                    /\ k \notin DOMAIN importMap
                    /\ k \in SeqToSet(skipped)

\* C11 witness: the first release failed at createGame with an error and was
\* skipped; the release after it met a conflict, uploaded an executable and is
\* in the map.
C11_Witness ==
  /\ runNo = 1 /\ pc = "done" /\ Len(gamesByReleaseKey) = 2
  /\ LET first == gamesByReleaseKey[1].releaseKey
         second == gamesByReleaseKey[2].releaseKey
     IN  /\ CreateCallsOf(first) # <<>>
         /\ CreateCallsOf(first)[1].status = "error"
         /\ skipped = <<first>>
         /\ CreateCallsOf(second) # <<>>
         /\ CreateCallsOf(second)[1].status = "conflict"
         /\ "uploadExecutable" \in OpsOf(CallsOf(runNo, second))
         /\ second \in DOMAIN importMap /\ first \notin DOMAIN importMap

\* A release of the current run whose importGame call got as far as the
\* uploads: a forced re-upload, or a fresh import whose createGame did not
\* fail with an error.
ReachedUploads(k) ==
  IF k \in DOMAIN loadedMap THEN Config.upload
  ELSE CreateCallsOf(k) # <<>> /\ CreateCallsOf(k)[1].status # "error"

\* C12: a release whose importGame call reaches the uploads gets exactly one
\* uploadExecutable per executable whose path exists, in list order, and the
\* image uploads it is due, whichever of these calls fail; the call returns a
\* result: the release is in the map and is not counted as skipped.
C12_UploadFailures ==
  runNo > 0 =>
    \A i \in 1..currentIndex :
      LET agg == gamesByReleaseKey[i]
          k == agg.releaseKey
      IN  ReachedUploads(k) =>
            /\ UploadsAsDue(agg, CallsOf(runNo, k))
            /\ k \in DOMAIN importMap
            /\ k \notin SeqToSet(skipped)

\* C12 witness: two executables exist, the upload of the first failed, the
\* second and a background image were uploaded all the same, and the release
\* was imported.
C12_Witness ==
  /\ runNo = 1 /\ pc = "done"
  /\ \E k \in ImportedKeys :
       LET cs == CallsOf(runNo, k)
           uploads == SelectSeq(cs, LAMBDA c : c.op = "uploadExecutable")
       IN  /\ [j \in 1..Len(uploads) |-> uploads[j].text] = <<P1, P2>>
           /\ uploads[1].status = "error" /\ uploads[2].status = "ok"
           /\ "uploadBackground" \in OpsOf(cs)

(***************************************************************************)
(* Rating conversion.                                                      *)
(***************************************************************************)
\* The rating the query returned for a release (one value per release).
SourceRating(k) ==
  LET i == CHOOSE i \in 1..Len(env.rows) : env.rows[i].releaseKey = k
  IN  env.rows[i].myRating

\* Twice a rating, null for null.
Doubled(r) == IF r = NULL THEN NULL ELSE 2 * r

\* C14: as stated, for every fresh release the stars sent in createGame and
\* the stars stored in its map entry are twice the source rating, for every
\* rating from 0 to 5, and null for a null rating.
C14_StarsDoubled ==
  runNo > 0 =>
    \A i \in 1..currentIndex :
      LET k == gamesByReleaseKey[i].releaseKey
          creates == CreateCallsOf(k)
      IN  k \notin DOMAIN loadedMap =>
            /\ \A j \in 1..Len(creates) :
                 creates[j].stars = Doubled(SourceRating(k))
            /\ k \in DOMAIN importMap =>
                 importMap[k].stars = Doubled(SourceRating(k))

(***************************************************************************)
(* Display labels: one run over one row whose label varies.                *)
(***************************************************************************)
MaxLabelLen == 4

LabelChars == {".", "s", "h", "b", "a", "t", "x"}

NamedLabels ==
  {NULLS,
   <<"s", "c", "r", "i", "p", "t", ".", "s", "h">>,
   <<"r", "u", "n", ".", "b", "a", "t">>,
   <<"l", "a", "u", "n", "c", "h", "e", "r">>,
   <<"m", "y", "s", "c", "r", "i", "p", "t", ".", "e", "x", "e">>,
   <<"x", ".", "s", "h", ".", "b", "a", "t">>,
   <<"x", ".", "b", "a", "t", ".", "s", "h">>,
   <<"x", ".", "S", "H">>}

LabelPool == SeqsUpTo(LabelChars, MaxLabelLen) \cup NamedLabels

LabelFs ==
  [execFiles |-> {P1}, imageFiles |-> {},
   uploadErr |-> [execs |-> {}, images |-> {}]]

InitLabel ==
  InitWith({<<QuietRun>>},
           {<<Row("rk1", TA, P1, label, 4, FullDate)>> : label \in LabelPool},
           {TA :> Found(<<G1>>)}, {QuietServer}, {LabelFs}, {NoFile},
           {NoSearch}, "idle")

SpecLabel == InitLabel /\ [][NextTwice]_vars

\* The uploadExecutable calls issued so far.
ExecutableUploads == SelectSeq(calls, LAMBDA c : c.op = "uploadExecutable")

\* sent is label without one trailing .bat or .sh, or label itself if it ends
\* in neither.
StrippedOnce(label, sent) ==
  \/ label = sent \o BatSuffix
  \/ label = sent \o ShSuffix
  \/ sent = label /\ ~EndsWith(label, BatSuffix) /\ ~EndsWith(label, ShSuffix)

MaxTagRows == 3

TagT == <<"T">>
TagLowerT == <<"t">>
TagU == <<"u">>

\* The release date the tags query joins to a releaseKey; rk3 is a release
\* the games query does not return.
TagDate(releaseKey) ==
  CASE releaseKey = "rk1" -> FullDate
    [] releaseKey = "rk2" -> ShortDate
    [] OTHER -> NULL

TagRow(tag, releaseKey) ==
  [tag |-> tag, releaseKey |-> releaseKey, releaseDate |-> TagDate(releaseKey)]

TagRowPool ==
  {TagRow(tag, k) : tag \in {TagT, TagLowerT, TagU}, k \in {"rk1", "rk2", "rk3"}}

\* ORDER BY urt.tag, releaseDate: binary order of the tags (upper case
\* first), then the date with null first.
TagRank(tag) == CASE tag = TagT -> 1 [] tag = TagLowerT -> 2 [] OTHER -> 3

TagRowBefore(a, b) ==
  \/ TagRank(a.tag) < TagRank(b.tag)
  \/ TagRank(a.tag) = TagRank(b.tag) /\ a.releaseDate < b.releaseDate

RECURSIVE TagsQuery(_)
TagsQuery(rows) ==
  IF rows = {} THEN <<>>
  ELSE LET first == CHOOSE r \in rows :
                      \A o \in rows \ {r} : TagRowBefore(r, o)
       IN  <<first>> \o TagsQuery(rows \ {first})

\* The results of the tags query: one row per (tag, releaseKey), ordered.
TagsResults ==
  {TagsQuery(rows) : rows \in {S \in SUBSET TagRowPool : Cardinality(S) <= MaxTagRows}}

\* An entry of content/games: id is the number its name is the decimal form
\* of (null for any other name); name and title are those of its manifest.
Dir(id, isDirectory, hasMetadata, jsonOk, name, title) ==
  [id |-> id, isDirectory |-> isDirectory, hasMetadata |-> hasMetadata,
   jsonOk |-> jsonOk, name |-> name, title |-> title]

\* The directory of game 2.
DirsOfTwo == <<Dir(2, TRUE, TRUE, TRUE, <<"Y">>, NULLS)>>

\* A directory with a text name whose manifest is named "A", the directories
\* of games 1 and 2 without manifest, a directory 5 whose manifest is broken,
\* and a directory 7 with an old manifest titled " A".
DirsByTitle ==
  <<Dir(NULL, TRUE, TRUE, TRUE, <<"A">>, NULLS),
    Dir(1, TRUE, FALSE, TRUE, NULLS, NULLS),
    Dir(2, FALSE, FALSE, TRUE, NULLS, NULLS),
    Dir(5, TRUE, TRUE, FALSE, <<"A">>, NULLS),
    Dir(7, TRUE, TRUE, TRUE, NULLS, <<" ", "A">>)>>

\* The remote collections and content/games, without the tag rows.
WorldOfCollections ==
  {Collections(<<>>, TRUE, <<>>, <<>>, TRUE, <<>>, TRUE),
   Collections(<<>>, TRUE, <<>>, <<>>, TRUE, DirsOfTwo, TRUE),
   FailingUpdates(Collections(<<>>, TRUE, <<>>, <<>>, TRUE, DirsByTitle, TRUE),
                  {TagLowerT}),
   Collections(<<>>, TRUE, <<>>, <<>>, FALSE, <<>>, TRUE),
   Collections(<<>>, TRUE, <<>>, <<>>, TRUE, DirsOfTwo, FALSE),
   Collections(<<>>, TRUE, <<TagLowerT, NULLS>>, <<>>, TRUE, DirsOfTwo, TRUE),
   Collections(<<>>, FALSE, <<TagLowerT>>, TagLowerT :> "conflict", TRUE,
               DirsByTitle, TRUE),
   Collections(<<>>, TRUE, <<>>,
               (TagT :> "conflict") @@ (TagLowerT :> "error")
                 @@ (TagU :> "noid"),
               TRUE, DirsOfTwo, TRUE)}

CollectionsPool ==
  {[w EXCEPT !.tags = tags] : w \in WorldOfCollections, tags \in TagsResults}

\* The rows of the games query: release rk2 with one title, release rk1 with
\* two.
FullRows ==
  <<Row("rk2", TA, NULLS, NULLS, 0, ShortDate),
    Row("rk1", TAB, P1, LSh, 4, FullDate),
    Row("rk1", TB, P2, NULLS, 4, FullDate)>>

PlainServer ==
  [details |-> [i \in Ids |-> NoDetails], createErr |-> {}, serverGames |-> {}]

\* The catalog and the game server: nothing is found; "a" finds games 2 and
\* 1; "a b" is rejected and "b" finds game 1; "a" finds games 2 and 1 and
\* every createGame fails.
GameWorlds ==
  {[catalog |-> <<>>, server |-> PlainServer],
   [catalog |-> TA :> Found(<<G2, G1>>), server |-> PlainServer],
   [catalog |-> (TAB :> Rejected) @@ (TB :> Found(<<G1>>)),
    server |-> PlainServer],
   [catalog |-> TA :> Found(<<G2, G1>>),
    server |-> [PlainServer EXCEPT !.createErr = {1, 2}]]}

FullFiles ==
  {NoFile, File("rk3" :> FileNumber(1)), File("rk1" :> FileNumber(1))}

ValidSetup(mode) == Setup(mode, TRUE, TRUE, TRUE, TRUE, TRUE, TRUE, TRUE, TRUE)

\* Setups with one path or credential missing, or with a query that fails.
FaultySetups ==
  {Setup(mode, f[1], f[2], f[3], f[4], f[5], f[6], f[7], f[8]) :
     mode \in {AllPhases, CollectionsOnly},
     f \in {g \in [1..8 -> BOOLEAN] :
              Cardinality({i \in 1..8 : ~g[i]}) = 1}}

\* Runs of the two modes that import collections, in every world; runs whose
\* write of the import map fails; and runs of every combination of the two
\* flags, valid or faulty, in one world.
InitFull ==
  /\ \/ \E world \in GameWorlds, coll \in CollectionsPool,
          mode \in {AllPhases, CollectionsOnly} :
          /\ env = FullEnv(<<QuietRun>>, FullRows, world.catalog, world.server,
                           QuietFs, ValidSetup(mode), coll)
          /\ serverGames = world.server.serverGames
     \/ \E world \in GameWorlds, tags \in {<<>>, <<TagRow(TagU, "rk2")>>} :
          /\ env = FullEnv(<<Run(FALSE, TRUE, TRUE, FALSE)>>, FullRows,
                           world.catalog, world.server, QuietFs,
                           ValidSetup(AllPhases),
                           Collections(tags, TRUE, <<>>, <<>>, TRUE,
                                       DirsOfTwo, TRUE))
          /\ serverGames = world.server.serverGames
     \/ \E setup \in FaultySetups
                       \cup {ValidSetup(GamesOnly), ValidSetup(BothFlags)},
          tags \in {<<>>, <<TagRow(TagU, "rk2")>>} :
          /\ env = FullEnv(<<QuietRun>>, FullRows, TA :> Found(<<G2, G1>>),
                           PlainServer, QuietFs, setup,
                           Collections(tags, TRUE, <<>>, <<>>, TRUE,
                                       DirsOfTwo, TRUE))
          /\ serverGames = {}
  /\ StartState(FullFiles, {NoSearch}, "idle")

NextFull ==
  \/ RejectRun
  \/ StartRun
  \/ QueryGames
  \/ QueryGamesFails
  \/ QueryGamesForCollections
  \/ FetchExistingGameIds
  \/ ProcessRelease
  \/ FinishGames
  \/ QueryTags
  \/ QueryTagsFails
  \/ ImportCollections

SpecFull == InitFull /\ [][NextFull]_vars

(***************************************************************************)
(* Collections.                                                            *)
(***************************************************************************)
\* The tags importCollections reached and did not skip.
AttemptedTags == {i \in 1..Len(collections.tags) : ~collections.tags[i].skipped}

\* The releaseKeys of the rows of a tag, in row order.
KeysOfTag(tag) ==
  LET rows == SelectSeq(tagsData, LAMBDA r : r.tag = tag)
  IN  [i \in 1..Len(rows) |-> rows[i].releaseKey]

\* The ids the members of a tag resolved to, in member order.
ResolvedIds(t) == Flatten([i \in 1..Len(t.members) |-> t.members[i].ids])

\* sent is ids with every later duplicate removed: the same ids, each once,
\* in the order of their first occurrences.
FirstOccurrence(ids, id) == Min({i \in 1..Len(ids) : ids[i] = id})

IsFirstKept(ids, sent) ==
  /\ SeqToSet(sent) = SeqToSet(ids)
  /\ \A a, b \in 1..Len(sent) :
       a < b => FirstOccurrence(ids, sent[a]) < FirstOccurrence(ids, sent[b])

\* C15: for every tag that is not skipped, the members are resolved in the
\* order of the rows of the tag and a member list that is sent to
\* setCollectionMembers is the list of the resolved ids with every later
\* duplicate removed; it is sent at most once per tag.
C15_MemberListDeduplicated ==
  \A n \in AttemptedTags :
    LET t == collections.tags[n]
    IN  /\ Len(t.members) <= Len(KeysOfTag(t.tag))
        /\ \A i \in 1..Len(t.members) :
             t.members[i].releaseKey = KeysOfTag(t.tag)[i]
        /\ Len(t.sent) <= 1
        /\ \A j \in 1..Len(t.sent) : IsFirstKept(ResolvedIds(t), t.sent[j])

\* C15 witness: the members of a tag resolved to 1, 2, 1 and 1, 2 was sent.
C15_Witness ==
  \E n \in AttemptedTags :
    /\ ResolvedIds(collections.tags[n]) = <<1, 2, 1>>
    /\ collections.tags[n].sent = << <<1, 2>> >>

\* The lower-cased titles of the collections the remote side holds.
RemoteTitles ==
  {toLowerCase(env.existing[i]) :
     i \in {j \in 1..Len(env.existing) : env.existing[j] # NULLS}}

EventOps(m) == [i \in 1..Len(m.events) |-> m.events[i].op]
EventsOf(m, op) == SelectSeq(m.events, LAMBDA e : e.op = op)

\* The events of a member are searches, then at most one look for the
\* directory of an id, then at most one scan of content/games.
InTierOrder(m) ==
  /\ Len(EventsOf(m, "probeDir")) <= 1
  /\ Len(EventsOf(m, "readdir")) <= 1
  /\ \A i, j \in 1..Len(m.events) :
       i < j =>
         /\ m.events[j].op = "search" => m.events[i].op = "search"
         /\ m.events[i].op = "readdir" => FALSE

\* C17: a member whose releaseKey is in the session map, or in the import map
\* loaded at start, contributes the id held there with no search and no look
\* at the filesystem; a member with a search is in neither map; searches come
\* first, then the directory named after the id found is looked for, and
\* content/games is scanned by title only if that directory was not found;
\* an id contributed after a search is the id of that directory or an id
\* found by the scan.
C17_TierOrder ==
  \A n \in AttemptedTags :
    \A i \in 1..Len(collections.tags[n].members) :
      LET m == collections.tags[n].members[i]
          k == m.releaseKey
          probes == EventsOf(m, "probeDir")
          scans == EventsOf(m, "readdir")
      IN  /\ k \in DOMAIN SessionMap =>
               m.ids = <<SessionMap[k]>> /\ m.events = <<>>
          /\ k \in DOMAIN loadedMap =>
               m.ids = <<loadedMap[k].igdbId>> /\ m.events = <<>>
          /\ EventsOf(m, "search") # <<>> =>
               k \notin DOMAIN SessionMap /\ k \notin DOMAIN loadedMap
          /\ InTierOrder(m)
          /\ probes # <<>> =>
               IF DirectoryOfId(CollectionFs, probes[1].id)
               THEN m.ids = <<probes[1].id>> /\ scans = <<>>
               ELSE scans # <<>>
          /\ (m.tier = "search" /\ m.ids # <<>> /\ scans # <<>>) =>
               \E d \in 1..Len(env.dirs) :
                 /\ env.dirs[d].id = m.ids[1]
                 /\ \E title \in SeqToSet(AggregateOf(k).titles) :
                      NormalizedTitle(title) \in
                        {NormalizedTitle(env.dirs[d].name),
                         NormalizedTitle(env.dirs[d].title)}

\* C17 witness: in one tag, a member held by the session map with no event,
\* and a member in neither map that was searched, whose directory was looked
\* for and not found, and that was found by the scan.
C17_Witness ==
  \E n \in AttemptedTags :
    \E i, j \in 1..Len(collections.tags[n].members) :
      LET a == collections.tags[n].members[i]
          b == collections.tags[n].members[j]
      IN  /\ a.releaseKey \in DOMAIN SessionMap /\ a.events = <<>>
          /\ a.ids # <<>>
          /\ b.releaseKey \notin DOMAIN SessionMap
          /\ EventOps(b) \in {<<"search", "probeDir", "readdir">>,
                              <<"search", "search", "probeDir", "readdir">>}
          /\ b.ids = <<7>>

\* Whether importCollections threw while it resolved member i of tag n.
ThrewAt(n, i) ==
  /\ collections.threw
  /\ n = Len(collections.tags)
  /\ i = Len(collections.tags[n].members)

\* C18 as stated: every member of a tag that is not skipped contributes
\* exactly one id or exactly one missing record, and createCollection is
\* called for the tag.
C18_AsStated ==
  \A n \in AttemptedTags :
    LET t == collections.tags[n]
    IN  /\ \A i \in 1..Len(t.members) :
             Len(t.members[i].ids) + Len(t.members[i].missing) = 1
        /\ Len(t.creates) = 1

\* C18: every member of a tag that is not skipped contributes exactly one id
\* or exactly one missing record and createCollection is called once for the
\* tag, however many members are missing, unless reading content/games fails:
\* then importCollections throws, the member it was resolving contributes
\* nothing, the members after it are not resolved and createCollection is
\* not called for the tag.
C18_OneOutcomePerMember ==
  /\ collections.threw => ~env.readdirOk /\ collections.tags # <<>>
  /\ \A n \in AttemptedTags :
       LET t == collections.tags[n]
           threwHere == collections.threw /\ n = Len(collections.tags)
       IN  /\ \A i \in 1..Len(t.members) :
                IF ThrewAt(n, i)
                THEN t.members[i].ids = <<>> /\ t.members[i].missing = <<>>
                ELSE Len(t.members[i].ids) + Len(t.members[i].missing) = 1
           /\ IF threwHere THEN t.creates = <<>> /\ t.sent = <<>>
              ELSE /\ Len(t.creates) = 1
                   /\ Len(t.members) = Len(KeysOfTag(t.tag))

\* C18 witness: importCollections returned; a tag with two members, neither
\* resolved and one of them without an aggregate, was created all the same
\* and no member list was sent for it.
C18_Witness ==
  /\ outcome = "returned"
  /\ \E n \in AttemptedTags :
       LET t == collections.tags[n]
       IN  /\ Len(t.members) = 2
           /\ \A i \in 1..2 : t.members[i].ids = <<>>
           /\ \E i \in 1..2 : t.members[i].tier = "unknown"
           /\ t.creates = <<"ok">> /\ t.sent = <<>>

(***************************************************************************)
(* Setup failures and the database handle.                                 *)
(***************************************************************************)
\* The database file, the metadata root, the server URL, the API token or a
\* search credential is missing.
SetupIncomplete ==
  \/ ~env.setup.dbFile \/ ~env.setup.metadataDir
  \/ ~env.setup.serverUrl \/ ~env.setup.apiToken
  \/ ~env.setup.twitchClientId \/ ~env.setup.twitchClientSecret

\* C19: with the database file, the metadata root, the server URL, the API
\* token or a search credential missing, a run throws and has, at any time,
\* not read the import map, not opened the database and issued no remote
\* call.
C19_SetupRejected ==
  SetupIncomplete =>
    /\ pc \in {"idle", "rejected"}
    /\ pc = "rejected" => outcome = "threw"
    /\ trace = <<>>
    /\ loadedMap = <<>> /\ importMap = <<>>
    /\ calls = <<>>
    /\ collections = NoCollections

\* C19 witness: a run without API token threw; an import map file was there
\* to read and was not read.
C19_Witness ==
  /\ pc = "rejected" /\ outcome = "threw"
  /\ ~env.setup.apiToken
  /\ mapFile.exists
  /\ trace = <<>>

CountOf(seq, x) == Cardinality({i \in 1..Len(seq) : seq[i] = x})

\* C20: the database is closed at most once, only after it was opened, and
\* nothing is done with it after the close; a run that opened it and has
\* returned or thrown has closed it exactly once.
C20_ClosedOnce ==
  /\ \A i \in 1..Len(trace) :
       trace[i] = "close" =>
         /\ i = Len(trace)
         /\ \E j \in 1..(i - 1) : trace[j] = "open"
  /\ (outcome \in {"returned", "threw"} /\ CountOf(trace, "open") > 0) =>
       CountOf(trace, "close") = 1

\* C20 witness: importCollections threw after the games and the tags were
\* queried, and the database was closed once, at the end.
C20_Witness ==
  /\ outcome = "threw"
  /\ collections.threw
  /\ trace = <<"readMap", "open", "query", "query", "close">>

(***************************************************************************)
(* The command line on its own: one setting given, or not, in the shell    *)
(* environment, in the .env file and as an option, with the required       *)
(* settings given by the environment, by options or not at all.            *)
(***************************************************************************)
\* The string settings of main and LIMIT: the variable and the option key.
CliSetting(name, key) == [name |-> name, key |-> key]

CliSettings ==
  <<CliSetting("METADATA_PATH", metadata_path),
    CliSetting("GALAXY_DB_PATH", galaxy_db_path),
    CliSetting("GALAXY_IMAGES_PATH", galaxy_images_path),
    CliSetting("SERVER_URL", server_url),
    CliSetting("TWITCH_CLIENT_ID", twitch_client_id),
    CliSetting("TWITCH_CLIENT_SECRET", twitch_client_secret),
    CliSetting("LIMIT", limit_key),
    CliSetting("SEARCH", search_key)>>

SettingNames == {CliSettings[i].name : i \in DOMAIN CliSettings}

\* The settings without which main exits.
RequiredNames == {"METADATA_PATH", "TWITCH_CLIENT_ID", "TWITCH_CLIENT_SECRET"}

\* The values given: each source has its own, so that the configuration
\* shows where a value came from.
ShellValue(name) == IF name = "LIMIT" THEN <<"7">> ELSE <<"E">>
FileValue(name) == IF name = "LIMIT" THEN <<"3">> ELSE <<"F">>
OptionValue(name) == IF name = "LIMIT" THEN <<"5">> ELSE <<"O">>

\* --some-option for the key some_option.
OptionToken(key) ==
  <<"-", "-">> \o [i \in 1..Len(key) |-> IF key[i] = "_" THEN "-" ELSE key[i]]

\* The options of the given settings with their values, in the order of
\* CliSettings.
RECURSIVE OptionArgs(_, _)
OptionArgs(names, i) ==
  IF i > Len(CliSettings) THEN <<>>
  ELSE (IF CliSettings[i].name \in names
        THEN <<OptionToken(CliSettings[i].key), OptionValue(CliSettings[i].name)>>
        ELSE <<>>) \o OptionArgs(names, i + 1)

KeyOfName(name) ==
  CliSettings[CHOOSE i \in DOMAIN CliSettings : CliSettings[i].name = name].key

Steam == <<"s", "t", "e", "a", "m">>
PositionalPath == <<"P">>
TokenOfFile == <<"T">>

\* Command lines that do not reach the configuration.
OtherCommandLines == {<<>>, <<HelpLong>>, <<HelpShort>>, <<Steam>>}

CliPool ==
  {[args |-> args, shellEnv |-> <<>>, dotenvFile |-> <<>>,
    tokenFromFile |-> TokenOfFile] : args \in OtherCommandLines}
  \cup
  {[args |-> <<GogGalaxy>>
             \o (IF positional THEN <<PositionalPath>> ELSE <<>>)
             \o OptionArgs(((IF base = "options" THEN RequiredNames ELSE {})
                               \ {x})
                            \cup (IF asOption = "value" THEN {x} ELSE {}), 1)
             \o (IF asOption = "flag" THEN <<OptionToken(KeyOfName(x))>>
                 ELSE <<>>)
             \o (IF flags.gamesOnly THEN <<OptionToken(games_only)>> ELSE <<>>)
             \o (IF flags.collectionsOnly
                 THEN <<OptionToken(collections_only)>> ELSE <<>>),
    shellEnv |->
      [n \in ((IF base = "environment" THEN RequiredNames ELSE {}) \ {x})
               \cup (IF inShell THEN {x} ELSE {}) |-> ShellValue(n)],
    dotenvFile |-> [n \in (IF inFile THEN {x} ELSE {}) |-> FileValue(n)],
    tokenFromFile |-> tokenFromFile] :
     base \in {"environment", "options", "none"}, x \in SettingNames,
     inShell \in BOOLEAN, inFile \in BOOLEAN,
     asOption \in {"absent", "value", "flag"}, positional \in BOOLEAN,
     flags \in {GamesOnly, CollectionsOnly, AllPhases, BothFlags},
     tokenFromFile \in {NULLS, TokenOfFile}}

InitCli ==
  /\ env = Env(<<QuietRun>>, <<>>, <<>>, QuietServer, QuietFs)
  /\ serverGames = {}
  /\ StateBeforeRun({NoFile}, {NoSearch}, "cli")
  /\ cli \in CliPool

SpecCli == InitCli /\ [][Main]_vars

\* The value of a setting in the configuration handed to the importer.
ConfigOf(name) ==
  CASE name = "METADATA_PATH" -> config.config.metadataPath
    [] name = "GALAXY_DB_PATH" -> config.config.galaxyDbPath
    [] name = "GALAXY_IMAGES_PATH" -> config.config.galaxyImagesPath
    [] name = "SERVER_URL" -> config.config.serverUrl
    [] name = "TWITCH_CLIENT_ID" -> config.config.twitchClientId
    [] name = "TWITCH_CLIENT_SECRET" -> config.config.twitchClientSecret
    [] name = "LIMIT" -> config.config.limit
    [] name = "SEARCH" -> config.config.search

\* What a setting is when nothing gives it.
DefaultOf(name) ==
  CASE name = "METADATA_PATH" ->
         IF Len(cli.args) >= 2 THEN cli.args[2] ELSE NULLS
    [] name = "GALAXY_DB_PATH" -> DefaultDbPath
    [] name = "GALAXY_IMAGES_PATH" -> DefaultImagesPath
    [] name = "SERVER_URL" -> DefaultServerUrl
    [] name = "LIMIT" -> NULL
    [] OTHER -> NULLS

\* A setting is supplied as a command-line option: its option is on the
\* command line, followed by a value.
SuppliedAsOption(name) ==
  \E i \in 1..(Len(cli.args) - 1) :
     /\ cli.args[i] = OptionToken(KeyOfName(name))
     /\ cli.args[i + 1] = OptionValue(name)

\* A setting is supplied by the environment: by a variable of the shell or,
\* without one, by an entry of the .env file.
SuppliedByEnvironment(name) ==
  name \in (DOMAIN cli.shellEnv) \cup (DOMAIN cli.dotenvFile)

EnvironmentValue(name) ==
  IF name \in DOMAIN cli.shellEnv THEN cli.shellEnv[name]
  ELSE cli.dotenvFile[name]

\* A value as the configuration holds it: LIMIT is a number.
AsConfigured(name, value) ==
  IF name = "LIMIT"
  THEN CASE value = <<"7">> -> 7 [] value = <<"5">> -> 5 [] value = <<"3">> -> 3
  ELSE value

\* The option of a setting is on the command line without a value.
BareOption(name) ==
  \E i \in 1..Len(cli.args) :
     /\ cli.args[i] = OptionToken(KeyOfName(name))
     /\ i = Len(cli.args) \/ StartsWithDashes(cli.args[i + 1])

HandlerCalled == pc = "configured" /\ config.exit = "handler"

\* C21: for each setting (metadata path, Galaxy DB path, Galaxy images path,
\* server URL, Twitch credentials, limit, search) the configuration handed
\* to the importer holds the command-line option when the setting is given
\* both as an option and in the environment or the .env file, the
\* environment value when the option is absent, and the default when both
\* are absent.
C21_OptionFirst ==
  HandlerCalled =>
    \A name \in {n \in SettingNames : ~BareOption(n)} :
       ConfigOf(name) =
         IF SuppliedAsOption(name)
         THEN AsConfigured(name, OptionValue(name))
         ELSE IF SuppliedByEnvironment(name)
              THEN AsConfigured(name, EnvironmentValue(name))
              ELSE DefaultOf(name)

\* What main does instead: the environment (shell before .env file) comes
\* before the option.
EnvironmentFirst ==
  HandlerCalled =>
    \A name \in SettingNames :
       ConfigOf(name) =
         IF SuppliedByEnvironment(name)
         THEN AsConfigured(name, EnvironmentValue(name))
         ELSE IF SuppliedAsOption(name)
              THEN AsConfigured(name, OptionValue(name))
              ELSE IF BareOption(name)
                   THEN IF name = "LIMIT" THEN NaN ELSE TRUES
                   ELSE DefaultOf(name)

(***************************************************************************)
(* Run modes.                                                              *)
(***************************************************************************)
BothModes == env.setup.gamesOnly /\ env.setup.collectionsOnly

\* The calls of the game import: everything importGame and the prefetch issue.
GameImportCalls == {i \in 1..Len(calls) : calls[i].run = runNo}

\* importCollections was entered in this run.
CollectionImportDone == pc \in {"done", "failed"} /\ collections # NoCollections

\* C22: a run configured with gamesOnly and collectionsOnly both true is
\* rejected with an error: it never gets past the checks at the head of
\* importFromGOGGalaxy, and it performs no game import and no collection
\* import.
C22_BothModesRejected ==
  BothModes =>
    /\ pc \in {"idle", "rejected"}
    /\ GameImportCalls = {}
    /\ ~CollectionImportDone

\* What such a run does: with every path and credential in place it is a
\* collections-only run, which imports no game and returns.
BothModesRunsCollections ==
  BothModes /\ SetupValid(env.setup) =>
    /\ GameImportCalls = {}
    /\ currentIndex = 0
    /\ pc \notin {"rejected", "failed", "prefetch", "loop"}

\* A run with both flags has created a collection and returned.
BothModesImported ==
  /\ BothModes
  /\ outcome = "returned"
  /\ \E i \in AttemptedTags : collections.tags[i].creates # <<>>

(***************************************************************************)
(* Order of the remote calls.                                              *)
(***************************************************************************)
\* The first query row of a release.
FirstRowOf(k) == Min({i \in 1..Len(env.rows) : env.rows[i].releaseKey = k})

\* The calls issued for releases (the prefetch of the ids is for none).
ReleaseCalls == {i \in 1..Len(calls) : calls[i].rk # NullKey}

\* The operations of a sequence of calls, in order.
OpSeq(cs) == [i \in 1..Len(cs) |-> cs[i].op]

\* Place of a call within its release, for the calls that have one.
StageOf(op) ==
  CASE op = "createGame" -> 1
    [] op = "uploadExecutable" -> 2
    [] op = "uploadCover" -> 3
    [] op = "uploadBackground" -> 4
    [] OTHER -> 0

\* C23: releases are imported one at a time in the order of first appearance
\* of their releaseKey in the query rows: all the calls of a release come
\* before the calls of the releases after it; and within a release
\* createGame comes before every upload, the executable uploads before the
\* cover upload and the cover upload before the background upload.
C23_OneAtATime ==
  \A i, j \in ReleaseCalls :
     i < j /\ calls[i].run = calls[j].run =>
       /\ FirstRowOf(calls[i].rk) <= FirstRowOf(calls[j].rk)
       /\ calls[i].rk = calls[j].rk =>
            \/ StageOf(calls[i].op) = 0
            \/ StageOf(calls[j].op) = 0
            \/ StageOf(calls[i].op) < StageOf(calls[j].op)
            \/ /\ calls[i].op = "uploadExecutable"
               /\ calls[j].op = "uploadExecutable"

\* Two releases were imported, the first with createGame, an executable, a
\* cover and a background, in this order, and then the second.
C23_Witness ==
  /\ pc = "done"
  /\ Len(gamesByReleaseKey) = 2
  /\ LET k1 == gamesByReleaseKey[1].releaseKey
         k2 == gamesByReleaseKey[2].releaseKey
     IN  /\ OpSeq(SelectSeq(calls, LAMBDA c : c.rk = k1)) =
              <<"search", "getGameDetails", "createGame", "uploadExecutable",
                "uploadCover", "uploadBackground">>
         /\ \E i \in ReleaseCalls : calls[i].rk = k2 /\ calls[i].op = "createGame"

(***************************************************************************)
(* The write of the import map.                                            *)
(***************************************************************************)
\* Calls of saveReleaseKeyMap in a trace, failed ones included.
MapWrites(t) == CountOf(t, "writeMap") + CountOf(t, "writeMapFailed")

AfterTheLoop == pc \in {"tags", "collections", "done", "failed"}

C24_State ==
  ~env.setup.collectionsOnly =>
    /\ MapWrites(trace) <= 1
    /\ MapWrites(trace) = 1 =>
         /\ AfterTheLoop
         /\ currentIndex = Len(gamesByReleaseKey)
         /\ successCount >= 1
    /\ collections # NoCollections /\ successCount >= 1 => MapWrites(trace) = 1
    /\ CountOf(trace, "writeMapFailed") = 1 =>
         /\ mapFile = fileAtStart
         /\ pc = "failed" => ~env.setup.tagsQueryOk \/ collections.threw

C24_Step ==
  /\ MapWrites(trace') # MapWrites(trace) =>
       /\ pc = "loop" /\ currentIndex = Len(gamesByReleaseKey)
       /\ collections = NoCollections /\ collections' = NoCollections
       /\ pc' = IF env.setup.gamesOnly THEN "done" ELSE "tags"
       /\ outcome' # "threw"
  /\ mapFile' # mapFile => CountOf(trace', "writeMap") = CountOf(trace, "writeMap") + 1

\* C24: in a run that imports games the import-map file is written at most
\* once, after the last release has been processed and before any collection
\* call, and only if at least one release was imported or re-uploaded
\* successfully in this run; a failed write leaves the run going on to the
\* summary and the collection phase.
C24_FlushOnce == []C24_State /\ [][C24_Step]_vars

\* The write of the map failed after an import and the run went on: a
\* collection was created and the run returned.
C24_Witness ==
  /\ CountOf(trace, "writeMapFailed") = 1
  /\ successCount >= 1
  /\ outcome = "returned"
  /\ \E i \in AttemptedTags : collections.tags[i].creates # <<>>

(***************************************************************************)
(* Fields of an aggregate.                                                 *)
(***************************************************************************)
\* The value of a numeric field in the first row of a release, in arrival
\* order, that satisfies Set; NULL when no row does.
FirstValue(k, Field(_), Set(_)) ==
  LET having == {i \in RowsOfKey(k) : Set(Field(env.rows[i]))}
  IN  IF having = {} THEN NULL ELSE Field(env.rows[Min(having)])

RatingOf(row) == row.myRating
DateOf(row) == row.releaseDate
NonNull(n) == n # NULL

FieldsFromFirst(Set(_)) ==
  \A a \in 1..Len(gamesByReleaseKey) :
     LET agg == gamesByReleaseKey[a]
         k == agg.releaseKey
         date == FirstValue(k, DateOf, Set)
     IN  /\ agg.myRating = FirstValue(k, RatingOf, Set)
         /\ agg.releaseDate = date
         /\ agg.releaseYear = IF date = NULL THEN NULL ELSE YearOf(date)
         /\ agg.title = env.rows[Min(RowsOfKey(k))].title

\* C25: when several rows share a releaseKey, the rating, the release year
\* and the raw release date of the aggregate are those of the first row, in
\* arrival order, in which the field is non-null, a later row never replaces
\* a value already set, and the display title is the title of the first row.
C25_FirstNonNull == FieldsFromFirst(NonNull)

\* What the grouping does: a field counts as set when it is truthy, so a
\* rating of 0 is taken for no rating.
FirstTruthy == FieldsFromFirst(Truthy)

(***************************************************************************)
(* Collections created in one run.                                         *)
(***************************************************************************)
\* The lower-cased titles of the collections createCollectionViaAPI has
\* answered with an id for, before the n-th tag of the run.
CreatedBefore(n) ==
  {toLowerCase(collections.tags[i].tag) :
     i \in {j \in 1..(n - 1) : collections.tags[j].creates = <<"ok">>}}

\* C26: at the moment of every createCollection call no collection whose
\* title equals the tag ignoring case exists on the remote side, the
\* collections created earlier in the same run included; so a run leaves no
\* two remote collections with case-insensitively equal titles.
C26_NoCaseTwin ==
  \A n \in 1..Len(collections.tags) :
     collections.tags[n].creates # <<>> =>
       toLowerCase(collections.tags[n].tag)
         \notin (RemoteTitles \cup CreatedBefore(n))

\* With the list of the remote collections fetched and empty, two tags that
\* differ in letter case only were both created.
CaseTwinsCreated ==
  /\ env.listOk /\ env.existing = <<>>
  /\ \E i, j \in 1..Len(collections.tags) :
       /\ i < j
       /\ collections.tags[i].tag = TagT /\ collections.tags[j].tag = TagLowerT
       /\ collections.tags[i].creates = <<"ok">>
       /\ collections.tags[j].creates = <<"ok">>

\* What holds instead: a tag is created unless it equals, ignoring case, a
\* title of the list fetched at the start of importCollections.
CreatedUnlessListed ==
  \A n \in 1..Len(collections.tags) :
     LET t == collections.tags[n]
     IN  t.skipped <=> (env.listOk /\ toLowerCase(t.tag) \in RemoteTitles)

(***************************************************************************)
(* Membership of the collections a run created.                           *)
(***************************************************************************)
\* The tags for which createCollectionViaAPI answered with a collection.
CreatedTags ==
  {i \in 1..Len(collections.tags) : collections.tags[i].creates = <<"ok">>}

\* The members the remote has for the collection of a tag after the run:
\* the list of the PUT that succeeded, none when no PUT succeeded.
RemoteMembership(t) == IF t.sentStatus = <<"ok">> THEN t.sent[1] ELSE <<>>

\* C27, as stated: every collection a run created ends with exactly its
\* tag's deduplicated resolved member list as membership.
C27_MembershipAsResolved ==
  pc = "done" =>
    \A i \in CreatedTags :
      RemoteMembership(collections.tags[i])
        = UniqueGameIds(collections.tags[i].gameIds)

\* A collection was created, its members resolved, and the PUT of its
\* members failed: the collection stays, empty.
CreatedLeftEmpty ==
  /\ pc = "done"
  /\ \E i \in CreatedTags :
       /\ collections.tags[i].gameIds # <<>>
       /\ collections.tags[i].sentStatus = <<"error">>
       /\ i < Len(collections.tags)

\* What does hold: at most one PUT per created collection, carrying the
\* deduplicated resolved list, and none for an empty list or a failed create.
OnePutOfResolved ==
  \A i \in 1..Len(collections.tags) :
    LET t == collections.tags[i]
    IN  /\ Len(t.sent) <= 1
        /\ Len(t.sent) = Len(t.sentStatus)
        /\ t.sent # <<>> <=>
             (t.creates = <<"ok">> /\ UniqueGameIds(t.gameIds) # <<>>)
        /\ t.sent # <<>> => t.sent[1] = UniqueGameIds(t.gameIds)

(***************************************************************************)
(* Release date of the createGame payload: one release whose detail       *)
(* record and raw date vary.                                               *)
(***************************************************************************)
\* Dates a detail record or a row can carry: none, zero, a value.
FullDates == {NULL, 0, IgdbDate}
YearDates == {NULL, 0, 2000}
RawDates == {NULL, 0, ShortDate, FullDate}

\* The detail records of game 1: the fetch fails, or it answers with any
\* combination of the two dates.
DateServers ==
  {[details |-> 1 :> d, createErr |-> {}, serverGames |-> {}] :
     d \in {NoDetails}
           \cup {Details(<<"Z">>, f, y) : f \in FullDates, y \in YearDates}}

InitDate ==
  InitWith({<<QuietRun>>},
           {<<Row("rk1", TA, NULLS, NULLS, 4, raw)>> : raw \in RawDates},
           {TA :> Found(<<G1>>)}, DateServers, {QuietFs}, {NoFile},
           {NoSearch}, "idle")

SpecDate == InitDate /\ [][NextTwice]_vars

\* The createGame calls issued so far.
CreateCalls == SelectSeq(calls, LAMBDA c : c.op = "createGame")

\* The detail record the fetch of a game answered with, if it answered.
FetchedDetails(gameId) ==
  IF gameId \in DOMAIN env.details /\ env.details[gameId].ok
  THEN env.details[gameId] ELSE NoDetails

\* The date chosen among the three sources, for a reading of "present".
DateByPrecedence(Present(_), details, raw) ==
  IF Present(details.releaseDateFull) THEN details.releaseDateFull
  ELSE IF Present(details.releaseDate) THEN details.releaseDate
  ELSE IF Present(raw) THEN raw ELSE NULL

\* C28, as stated: the payload carries the full timestamp when there is one,
\* otherwise the coarse year when there is one, otherwise the raw date of the
\* row, and nothing when there is none of the three.
C28_AsStated ==
  \A j \in 1..Len(CreateCalls) :
    CreateCalls[j].releaseDate
      = DateByPrecedence(NonNull, FetchedDetails(CreateCalls[j].gameId),
                         env.rows[1].releaseDate)

\* C28: the same with a date of zero counted as absent: the payload carries
\* the first of full timestamp, coarse year and raw date that is neither null
\* nor zero, and null when there is none.
C28_DatePrecedence ==
  \A j \in 1..Len(CreateCalls) :
    CreateCalls[j].releaseDate
      = DateByPrecedence(Truthy, FetchedDetails(CreateCalls[j].gameId),
                         env.rows[1].releaseDate)

\* A payload carried the coarse year although the row had a raw date, the
\* detail record having no full timestamp.
C28_Witness ==
  \E j \in 1..Len(CreateCalls) :
    LET d == FetchedDetails(CreateCalls[j].gameId)
    IN  /\ d.releaseDateFull = NULL
        /\ d.releaseDate = 2000
        /\ env.rows[1].releaseDate = FullDate
        /\ CreateCalls[j].releaseDate = 2000

(***************************************************************************)
(* Cover and background uploads.                                           *)
(***************************************************************************)
\* The calls of one kind issued for a release in a run.
ImageCalls(op, k, run) ==
  {i \in 1..Len(calls) :
     calls[i].op = op /\ calls[i].rk = k /\ calls[i].run = run}

\* The patterns of a category whose file exists for a release.
ExistingPatterns(k, suffixes) ==
  {n \in 1..Len(suffixes) : <<k, suffixes[n]>> \in env.imageFiles}

\* The releases whose importGame got as far as the uploads in a run:
\* createGame was called for them and did not fail.
GotToUploads(k, run) ==
  \E i \in 1..Len(calls) :
    /\ calls[i].op = "createGame" /\ calls[i].rk = k /\ calls[i].run = run
    /\ calls[i].status # "error"

\* One category of images of one release in one run: at most one call; the
\* call is for the first pattern whose file exists; and it is there whenever
\* the release got to the uploads and a pattern exists.
OneImageUpload(op, suffixes, k, run) ==
  LET cs == ImageCalls(op, k, run)
      hits == ExistingPatterns(k, suffixes)
  IN  /\ Cardinality(cs) <= 1
      /\ \A i \in cs :
           \E n \in hits :
             /\ calls[i].text = <<k, suffixes[n]>>
             /\ \A m \in hits : n <= m
      /\ GotToUploads(k, run) /\ hits # {} => cs # {}

\* C29: per release and run at most one uploadCover and one uploadBackground
\* call, each for the first existing pattern of its category in the fixed
\* order; no call for a category without an existing pattern, and the release
\* is still recorded as imported; a failed cover upload is followed by the
\* background upload.
C29_FirstImageOnly ==
  \A k \in {"rk1", "rk2"}, run \in 1..runNo :
    /\ OneImageUpload("uploadCover", CoverSuffixes, k, run)
    /\ OneImageUpload("uploadBackground", BackgroundSuffixes, k, run)
    /\ GotToUploads(k, run) /\ (pc = "loop" \/ pc = "done")
         => k \in DOMAIN importMap
    /\ \A i \in ImageCalls("uploadCover", k, run) :
         ExistingPatterns(k, BackgroundSuffixes) # {} =>
           \E j \in ImageCalls("uploadBackground", k, run) : i < j

\* The cover upload of a release failed and its background was uploaded
\* after it, while another release with no image at all was imported.
C29_Witness ==
  /\ pc = "done"
  /\ \E i, j \in 1..Len(calls) :
       /\ i < j
       /\ calls[i].op = "uploadCover" /\ calls[i].status = "error"
       /\ calls[j].op = "uploadBackground" /\ calls[j].rk = calls[i].rk
  /\ \E k \in DOMAIN importMap :
       /\ GotToUploads(k, runNo)
       /\ ExistingPatterns(k, CoverSuffixes) = {}
       /\ ImageCalls("uploadCover", k, runNo) = {}

(***************************************************************************)
(* What each mode leaves out.                                              *)
(***************************************************************************)
\* The run skips the collections: gamesOnly is set and the games branch is
\* taken (collectionsOnly, tested first, is not set).
GamesOnlyMode == env.setup.gamesOnly /\ ~env.setup.collectionsOnly

\* The run skips the games.
CollectionsOnlyMode == env.setup.collectionsOnly

\* The calls of the game import that the claim names.
GameWriteOps ==
  {"createGame", "getGameDetails", "uploadExecutable", "uploadCover",
   "uploadBackground"}

\* C30: a games-only run never reads the tags and never enters
\* importCollections, the only place where the collections are listed,
\* created and given members; a collections-only run issues no createGame,
\* detail or upload call, keeps the import map as it was loaded and never
\* writes the import-map file.
C30_ModeFrame ==
  /\ GamesOnlyMode =>
       /\ pc \notin {"tags", "collections"}
       /\ tagsData = <<>>
       /\ collections = NoCollections
  /\ CollectionsOnlyMode /\ runNo > 0 =>
       /\ \A i \in 1..Len(calls) : calls[i].op \notin GameWriteOps
       /\ importMap = loadedMap
       /\ mapFile = fileAtStart
       /\ \A i \in 1..Len(trace) : trace[i] \notin {"writeMap", "writeMapFailed"}

\* A collections-only run that found an import-map file with an entry,
\* created a collection with a member and returned.
C30_Witness ==
  /\ CollectionsOnlyMode /\ ~env.setup.gamesOnly
  /\ outcome = "returned"
  /\ DOMAIN importMap # {}
  /\ \E i \in 1..Len(collections.tags) :
       /\ collections.tags[i].creates = <<"ok">>
       /\ collections.tags[i].sent # <<>>

\* A games-only run imported a release, wrote the import map and returned
\* with tag rows left in the library.
GamesOnlyReturned ==
  /\ GamesOnlyMode
  /\ outcome = "returned"
  /\ env.tags # <<>>
  /\ \E i \in 1..Len(trace) : trace[i] = "writeMap"

(***************************************************************************)
(* Loading the import map: the file and the success of the read vary.      *)
(***************************************************************************)
\* Import-map files: none; an empty object (or JSON that is no object); bare
\* numbers; objects; both kinds; and files with an entry under the empty key.
LoadFilePool ==
  {NoFile,
   File(<<>>),
   File("rk1" :> FileNumber(1)),
   File("rk1" :> FileObject(Entry(2, <<"O">>, <<"ymd", 2001, 2, 3>>, 6))),
   File(("rk1" :> FileNumber(2)) @@ ("rk3" :> FileObject(Entry(1, NULLS, NULLS, NULL)))),
   File(NullKey :> FileNumber(1)),
   File((NullKey :> FileObject(Entry(1, <<"O">>, NULLS, 4))) @@ ("rk3" :> FileNumber(2)))}

InitLoad ==
  InitWith({<<Run(up, readOk, TRUE, TRUE)>> : up, readOk \in BOOLEAN},
           {<<Row("rk1", TA, NULLS, NULLS, 4, FullDate)>>},
           {TA :> Found(<<G1>>)}, {QuietServer}, {QuietFs}, LoadFilePool,
           {NoSearch}, "idle")

SpecLoad == InitLoad /\ [][NextTwice]_vars

\* The entry loadReleaseKeyMap is to return for an entry of the file.
LoadedAs(entry, stored) ==
  IF stored.kind = "number"
  THEN entry = Entry(stored.igdbId, NULLS, NULLS, NULL)
  ELSE entry = Entry(stored.igdbId, stored.title, stored.releaseDate,
                     stored.stars)

\* What the load of this run returned, for the keys it is to return.
LoadReturned(keys) ==
  /\ pc # "failed"
  /\ IF ~fileAtStart.exists \/ ~Config.readOk THEN loadedMap = <<>>
     ELSE /\ DOMAIN loadedMap = keys
          /\ \A k \in keys : LoadedAs(loadedMap[k], fileAtStart.data[k])

\* C31, as stated: the load never throws, returns the empty map for an absent
\* or unreadable file and otherwise one entry per key of the file, a bare
\* number n as an entry whose igdbId is n.
C31_AsStated == runNo > 0 => LoadReturned(DOMAIN fileAtStart.data)

\* C31: the same with the empty key left out: the map returned has one entry
\* per non-empty key of the file.
C31_LoadNeverThrows ==
  runNo > 0 => LoadReturned(DOMAIN fileAtStart.data \ {NullKey})

\* A file with a bare number under a releaseKey and an entry under the empty
\* key was loaded: the number came back as an entry, the empty key did not.
C31_Witness ==
  /\ runNo > 0
  /\ Config.readOk
  /\ NullKey \in DOMAIN fileAtStart.data
  /\ "rk3" \in DOMAIN loadedMap
  /\ loadedMap["rk3"].igdbId = 2
  /\ fileAtStart.data["rk3"].kind = "number"

(***************************************************************************)
(* The cache of the searches of importCollections.                         *)
(***************************************************************************)
\* The events of all the members importCollections resolved, in the order of
\* the tags and of their members.
MemberEvents ==
  Flatten([n \in 1..Len(collections.tags) |->
             Flatten([i \in 1..Len(collections.tags[n].members) |->
                        collections.tags[n].members[i].events])])

\* A search call whose answer was a non-empty list: the call that ends a live
\* search with a result.
AnsweredWithGames(e) ==
  /\ e.op = "search"
  /\ searchGameOnServer(env.catalog, e.text).ok
  /\ searchGameOnServer(env.catalog, e.text).games # <<>>

\* The members that tried a title without a search call for it and looked
\* for the directory of an id: the id came from the cache.
ServedFromCache(m) ==
  /\ m.tier = "search"
  /\ EventsOf(m, "search") = <<>>
  /\ EventsOf(m, "probeDir") # <<>>

\* C32: after a search made for a title of titlesToTry was answered with a
\* non-empty list, no search call is made for that title again in the same
\* importCollections call; and a member served from the cache looks for the
\* directory of the id that an earlier search call answered first.
C32_CachedTitle ==
  /\ \A i, j \in 1..Len(MemberEvents) :
       i < j /\ AnsweredWithGames(MemberEvents[i]) =>
         MemberEvents[j].title # MemberEvents[i].title
  /\ \A n \in 1..Len(collections.tags) :
       \A i \in 1..Len(collections.tags[n].members) :
         LET m == collections.tags[n].members[i]
         IN  ServedFromCache(m) =>
               \E k \in 1..Len(MemberEvents) :
                 /\ AnsweredWithGames(MemberEvents[k])
                 /\ EventsOf(m, "probeDir")[1].id =
                      searchGameOnServer(env.catalog, MemberEvents[k].text).games[1].id

\* A member of a later tag was served from the cache after a member of an
\* earlier tag had been searched with a result.
C32_Witness ==
  \E n, o \in AttemptedTags :
    /\ n < o
    /\ \E i \in 1..Len(collections.tags[n].members) :
         \E e \in SeqToSet(collections.tags[n].members[i].events) :
           AnsweredWithGames(e)
    /\ \E j \in 1..Len(collections.tags[o].members) :
         ServedFromCache(collections.tags[o].members[j])

(***************************************************************************)
(* A failed fetch of the details.                                          *)
(***************************************************************************)
\* The calls of one kind among the calls of a release.
CallsOfOp(cs, op) == SelectSeq(cs, LAMBDA c : c.op = op)

\* The fetch of the details of a fresh release of the current run failed.
DetailsFailed(k) ==
  /\ k \notin DOMAIN loadedMap
  /\ CallsOfOp(CallsOf(runNo, k), "getGameDetails") # <<>>
  /\ CallsOfOp(CallsOf(runNo, k), "getGameDetails")[1].status = "error"

\* The candidates the last search call of a release was answered with.
CandidatesOf(cs) ==
  LET searches == CallsOfOp(cs, "search")
  IN  searchGameOnServer(env.catalog, searches[Len(searches)].text).games

\* C33: a fresh release whose detail fetch failed still gets one createGame
\* call, for the id and with the name of a candidate of its search and with
\* the date of the source library as release date; unless createGame itself
\* fails, its uploads follow and the release is recorded in the import map
\* under that id and is not counted as skipped.
C33_DetailsFailureDegrades ==
  runNo > 0 =>
    \A i \in 1..currentIndex :
      LET agg == gamesByReleaseKey[i]
          k == agg.releaseKey
          cs == CallsOf(runNo, k)
          creates == CreateCallsOf(k)
      IN  DetailsFailed(k) =>
            /\ Len(creates) = 1
            /\ \E g \in SeqToSet(CandidatesOf(cs)) :
                 g.id = creates[1].gameId /\ g.name = creates[1].text
            /\ creates[1].gameId = CallsOfOp(cs, "getGameDetails")[1].gameId
            /\ creates[1].releaseDate = agg.releaseDate
            /\ creates[1].status # "error" =>
                 /\ UploadsAsDue(agg, cs)
                 /\ k \in DOMAIN importMap
                 /\ importMap[k].igdbId = creates[1].gameId
                 /\ k \in ImportedKeys

\* The detail fetch of a release failed, the game was created with the date
\* of the library, an executable was uploaded and the release was recorded.
C33_Witness ==
  /\ pc = "done"
  /\ \E i \in 1..currentIndex :
       LET agg == gamesByReleaseKey[i]
           k == agg.releaseKey
       IN  /\ DetailsFailed(k)
           /\ CreateCallsOf(k)[1].status = "ok"
           /\ CreateCallsOf(k)[1].releaseDate = FullDate
           /\ "uploadExecutable" \in OpsOf(CallsOf(runNo, k))
           /\ k \in DOMAIN importMap

(***************************************************************************)
(* The release date of a map entry: one release whose raw date varies.     *)
(***************************************************************************)
\* 2000-02-29T00:00:00Z, 59 days after IgdbDate, and 1969-12-31T00:00:00Z.
LeapDay == IgdbDate + 59 * SecondsPerDay
DayBeforeEpoch == 0 - SecondsPerDay

\* Raw dates: none, years, the largest bare number and the number after it,
\* the last second of the first day and the first of the second, a leap day,
\* a timestamp of 2023 and one before 1970.
FormatDates ==
  {NULL, 1, ShortDate, 9999, 10000, 86399, 86400, LeapDay, FullDate,
   DayBeforeEpoch}

\* The calendar dates of the longer ones, from a calendar.
CalendarDate ==
  (10000 :> <<"ymd", 1970, 1, 1>>) @@ (86399 :> <<"ymd", 1970, 1, 1>>)
  @@ (86400 :> <<"ymd", 1970, 1, 2>>) @@ (LeapDay :> <<"ymd", 2000, 2, 29>>)
  @@ (FullDate :> <<"ymd", 2023, 11, 14>>)
  @@ (DayBeforeEpoch :> <<"ymd", 1969, 12, 31>>)

InitFormat ==
  InitWith({<<Run(up, TRUE, TRUE, TRUE)>> : up \in BOOLEAN},
           {<<Row("rk1", TA, NULLS, NULLS, 4, raw)>> : raw \in FormatDates},
           {TA :> Found(<<G1>>)}, {QuietServer}, {QuietFs},
           {NoFile, File("rk1" :> FileNumber(1))}, {NoSearch}, "idle")

SpecFormat == InitFormat /\ [][NextTwice]_vars

\* null, a bare year of at most four digits, or a calendar date.
StoredDateShape(d) ==
  \/ d = NULLS
  \/ /\ Len(d) = 2 /\ d[1] = "bare" /\ d[2] \in 0..9999
  \/ /\ Len(d) = 4 /\ d[1] = "ymd" /\ d[3] \in 1..12 /\ d[4] \in 1..31

\* What the claim says of a date: null for none, the number itself when it
\* has at most four digits, the calendar date of the timestamp otherwise.
StoredDateOf(date) ==
  IF date = NULL THEN NULLS
  ELSE IF date \in 0..9999 THEN <<"bare", date>>
  ELSE CalendarDate[date]

LoopIsOver ==
  /\ runNo > 0
  /\ \/ pc = "done"
     \/ pc = "loop" /\ currentIndex = Len(gamesByReleaseKey)

\* The releases whose import went through in this run: a fresh release whose
\* createGame did not fail, or a release that had an entry and was re-imported
\* because of the upload flag.
WentThrough ==
  {k \in SeqToSet(Processed) :
     IF k \in DOMAIN loadedMap THEN Config.upload ELSE GotToUploads(k, runNo)}

\* C35: when the loop is over every release aggregate has been counted once,
\* as imported or as skipped; the releases counted as imported are those
\* whose import went through, each of them has its map entry set in this run,
\* and the entry of every other release is as it was loaded.
C35_SummaryCounts ==
  LoopIsOver =>
    /\ successCount + skipCount = Len(gamesByReleaseKey)
    /\ Len(skipped) = skipCount
    /\ successCount = Cardinality(WentThrough)
    /\ \A k \in WentThrough : k \in DOMAIN importMap
    /\ \A k \in SeqToSet(AggregateKeys) \ WentThrough :
         IF k \in DOMAIN loadedMap THEN importMap[k] = loadedMap[k]
         ELSE k \notin DOMAIN importMap

\* A finished loop over two releases, one imported and one skipped.
C35_Witness ==
  /\ LoopIsOver
  /\ Len(gamesByReleaseKey) = 2
  /\ successCount = 1
  /\ skipCount = 1
  /\ \E k \in WentThrough : k \notin DOMAIN loadedMap

(***************************************************************************)
(* The ids known to exist grow with the run.                               *)
(***************************************************************************)
\* The ids of the games that createGame created in the current run, and the
\* ids that were on the server before it.
CreatedInRun ==
  {calls[i].gameId : i \in {j \in 1..Len(calls) :
     calls[j].run = runNo /\ calls[j].op = "createGame" /\ calls[j].status = "ok"}}

OnServerBefore == serverGames \ CreatedInRun

\* A fresh release of the current run that was imported, and the candidates
\* its last search was answered with.
FreshImported(k) == k \in ImportedKeys /\ k \notin DOMAIN loadedMap

KeysOnFile ==
  IF fileAtStart.exists THEN DOMAIN fileAtStart.data \ {NullKey} ELSE {}

\* The id a releaseKey has in memory and in the file is the id it had in the
\* file at the start of the run.
IdKept(k) ==
  /\ k \in DOMAIN importMap => importMap[k].igdbId = fileAtStart.data[k].igdbId
  /\ (mapFile.exists /\ k \in DOMAIN mapFile.data) =>
       mapFile.data[k].igdbId = fileAtStart.data[k].igdbId

\* C37: no run changes the id of a releaseKey that has an entry in the
\* import-map file.
C37_IdNeverChanges == runNo > 0 => \A k \in KeysOnFile : IdKept(k)

\* What holds: a run that could read the file keeps the id of every entry.
IdKeptWhenRead ==
  runNo > 0 /\ Config.readOk => \A k \in KeysOnFile : IdKept(k)

\* The second run could not read the file the first run had written, resolved
\* a release again and wrote another id for it.
IdChangedByRerun ==
  /\ runNo = 2 /\ pc = "done"
  /\ ~Config.readOk
  /\ \E k \in KeysOnFile :
       /\ k \in DOMAIN mapFile.data
       /\ mapFile.data[k].igdbId # fileAtStart.data[k].igdbId
       /\ \E i \in 1..Len(calls) :
            calls[i].run = 1 /\ calls[i].rk = k /\ calls[i].op = "createGame"

(***************************************************************************)
(* A release without an entry in a forced run.                             *)
(***************************************************************************)
\* What one iteration of a normal run does for a release without an entry,
\* on the state the iteration starts from: the calls of importGame with the
\* ids known to exist, and the entry recorded if it returned a result.
FreshImport(gameData) ==
  importGame(gameData.titles, gameData.releaseKey, gameData.executables,
             gameData.myRating, gameData.releaseYear,
             OrNull(gameData.releaseDate), FreshOptions(existingGameIds),
             Remote)

\* One iteration of a forced run on a release that has no entry is the
\* iteration of a normal run: the same calls, starting with the search; with
\* candidates found, the details are fetched and createGame is called; and a
\* returned result is recorded as a new entry, counted as imported and added
\* to the ids known to exist.
C38_Step ==
  (pc = "loop" /\ currentIndex' = currentIndex + 1 /\ Config.upload) =>
    LET gameData == gamesByReleaseKey[currentIndex + 1]
        k == gameData.releaseKey
        r == FreshImport(gameData)
        new == SubSeq(calls', Len(calls) + 1, Len(calls'))
        ops == [x \in 1..Len(new) |-> new[x].op]
    IN  k \notin DOMAIN importMap =>
          /\ calls' = calls \o LogAll(runNo, k, r.calls)
          /\ ops # <<>> /\ ops[1] = "search"
          /\ r.outcome # "null" /\ ~(\E x \in 1..Len(new) :
                                      new[x].op = "search" /\ new[x].status = "error")
               => /\ \E x \in 1..Len(ops) : ops[x] = "getGameDetails"
                  /\ \E x \in 1..Len(ops) : ops[x] = "createGame"
          /\ IF r.outcome = "result"
             THEN /\ k \in DOMAIN importMap'
                  /\ importMap'[k] =
                       Entry(r.result.igdbId, OrNullS(r.result.title),
                             OrNullS(r.result.releaseDate), r.result.stars)
                  /\ successCount' = successCount + 1
                  /\ r.result.igdbId \in existingGameIds'
             ELSE /\ importMap' = importMap
                  /\ skipCount' = skipCount + 1

\* C38: every iteration of a forced run on a release without an entry is the
\* iteration of a normal run.
C38_FreshInForcedRun == [][C38_Step]_vars

\* A forced run re-uploaded a release that had an entry and imported another
\* one afresh, with a search, the details, createGame and an executable.
C38_Witness ==
  /\ pc = "done" /\ Config.upload
  /\ \E k1 \in DOMAIN loadedMap : k1 \in ImportedKeys
  /\ \E k2 \in ImportedKeys :
       /\ k2 \notin DOMAIN loadedMap
       /\ {"search", "getGameDetails", "createGame", "uploadExecutable"}
            \subseteq OpsOf(CallsOf(runNo, k2))

(***************************************************************************)
(* Saving the import map and loading it again.                             *)
(***************************************************************************)
\* The file holds an object for exactly the releaseKeys of the map m, with
\* the four fields of each entry.
FileHoldsAll(file, m) ==
  /\ file.exists
  /\ DOMAIN file.data = DOMAIN m
  /\ \A k \in DOMAIN m :
       /\ file.data[k].kind = "object"
       /\ file.data[k].igdbId = m[k].igdbId
       /\ file.data[k].title = m[k].title
       /\ file.data[k].releaseDate = m[k].releaseDate
       /\ file.data[k].stars = m[k].stars

\* The run has written the import-map file.
MapWritten == pc = "done" /\ CountOf(trace, "writeMap") > 0

====
